---------------------------- MODULE Spec2Model ----------------------------
(***************************************************************************)
(* Model of the chunk queue (ChunkStream) and of the chunk-splitting       *)
(* transport (Transporter) of the api-communication-gateway-server.        *)
(*                                                                         *)
(* A Buffer is a sequence of bytes.  The code never inspects a byte's      *)
(* value, it only slices and concatenates, so a payload of n bytes is      *)
(* represented by the bytes 1..n: every other payload of that length is a  *)
(* renaming of it.                                                         *)
(***************************************************************************)
EXTENDS Integers, Sequences, FiniteSets, TLC

VARIABLES
  kind,              \* dynamic class of the object: "ChunkStream" | "Transporter"
  chunks,            \* this[$chunks]
  length,            \* this[$length]
  finish,            \* this[$finish]
  disposed,          \* this[$disposed]
  nextByte,          \* number of bytes handed to acceptChunk so far (input generator)
  payload,           \* _payload given to the Transporter constructor
  maxLength,         \* this.#maxLength
  streamChunks,      \* the closure variable `chunks` of the constructor
  chunksNull,        \* TRUE once the closure variable `chunks` has been set to null
  currentChunkIndex, \* the closure variable `currentChunkIndex`
  destroyed,         \* this.#stream.destroyed
  pushed,            \* the chunks handed to Readable.push, in call order
  pushRets,          \* what each of those push calls returned
  eos,               \* number of push(null) calls
  op,                \* the operation performed by the last step
  argN,              \* its numeric argument (byteCount), 0 when it has none
  argBuf,            \* its buffer argument, <<>> when it has none
  err,               \* the error it threw, "none" when it returned
  ret,               \* the buffer it returned
  snap,              \* the array returned by the last successful chunks()
  snapLive,          \* TRUE when that array is this[$chunks] itself, not a copy
  originalPayload,   \* EncryptedTransporter #props.originalPayload (0: null)
  ready,             \* EncryptedTransporter #ready
  signature,         \* EncryptedTransporter #signature (0: null)
  transporter,       \* EncryptedTransporter #transporter (0: null)
  algorithmIdentifier, \* EncryptedTransporter #algorithmIdentifier (0: null)
  pc,                \* where each begin() invocation stands
  rejection,         \* what each begin() invocation rejected with
  got,               \* what the last accessor read returned (0: nothing)
  algorithm,         \* EncryptedTransporter #props.algorithm
  password,          \* byte length of EncryptedTransporter #props.password
  hmacKey,           \* EncryptedTransporter #props.hmacKey: "absent" | "empty" | "given"
  hk,                \* the signing key the last hashObject call was given
  sk,                \* the SymmetricKey last constructed (<<>>: none)
  aes,               \* the AES cipher last constructed (<<>>: none)
  out,               \* what the last SymmetricKey / AES call returned (<<>>: null)
  value,             \* the value at hand for serialize() (<<>>: none, parse() is given foreign buffers)
  parsed,            \* what the last parse() returned (<<>>: nothing)
  subs,              \* the token of each pipe() subscription: "absent", "live" or "cancelled"
  compressed,        \* what the last isCompressedBuffer call returned
  loopOffset,        \* the local `offset` of the Transporter constructor
  ctor,              \* where the Transporter constructor stands: "new", "loop", "end" or "done"
  promise,           \* the promise of ExpressAdapter.send(): "idle" (not called), "pending" or "resolved"
  chunksCount,       \* the local `chunksCount` of send()
  res,               \* this.#res: writeHead called, the chunks given to write, end called
  w,                 \* the Writable of send(): a write awaits its callback, the chunks queued behind it, end called
  piped              \* number of data events stream.pipe(w) has handed to w.write

queueVars  == <<chunks, length, finish, disposed>>
streamVars == <<streamChunks, chunksNull, currentChunkIndex, pushed, pushRets, eos>>
ctorVars   == <<kind, payload, maxLength>>
callVars   == <<op, argN, argBuf, err, ret>>
snapVars   == <<snap, snapLive>>
fieldVars  == <<originalPayload, ready, signature, transporter, algorithmIdentifier>>
propsVars  == <<algorithm, password, hmacKey>>
envVars    == <<fieldVars, pc, rejection, got, propsVars, hk>>
cryptoVars == <<sk, aes, out>>
codecVars  == <<value, parsed>>
pipeVars   == <<subs>>
zipVars    == <<compressed>>
loopVars   == <<loopOffset, ctor>>
sendVars   == <<promise, chunksCount, res, w, piped>>
vars == <<kind, chunks, length, finish, disposed, nextByte, payload, maxLength,
          streamChunks, chunksNull, currentChunkIndex, destroyed, pushed,
          pushRets, eos, op, argN, argBuf, err, ret, snap, snapLive,
          originalPayload, ready, signature, transporter, algorithmIdentifier,
          pc, rejection, got, algorithm, password, hmacKey, hk, sk, aes, out,
          value, parsed,
          subs,
          compressed,
          loopOffset, ctor,
          promise, chunksCount, res, w, piped>>

---------------------------------------------------------------------------
\* Bounds of the model.

\* Longest payload a Transporter is constructed from.
MaxPayloadLen == 3
\* Largest _maxBlockSize given to the Transporter constructor.
MaxBlock == 3
\* Longest buffer handed to acceptChunk on a plain ChunkStream.
MaxChunkLen == 2
\* Total number of bytes handed to acceptChunk on a plain ChunkStream.
MaxBytes == 3
\* Most buffers a plain ChunkStream is given (empty buffers take no bytes).
MaxChunks == 3
\* Largest byteCount requested of read and peek.
MaxCount == 3
\* How far this[$length] may run ahead of the bytes held: a negative
\* byteCount makes it grow without limit.
MaxDrift == 1
\* begin() invocations on one EncryptedTransporter.
MaxBegins == 2
\* Longest secret a SymmetricKey is constructed from.
MaxSecretLen == 80
\* Longest string handed to serialize.
MaxStringLen == 2
\* Largest magnitude of the integers handed to serialize.
MaxInteger == 12
\* Most items of an array and most members of an object handed to serialize.
MaxItems == 2
\* Most pipe() subscriptions of one ChunkStream.
MaxPipes == 1
\* Most negative _maxBlockSize given to the Transporter constructor.
MaxNegative == 2
\* Longest payload the Transporter constructor is followed on.
MaxSplitLen == 5
\* Most chunks the loop of the Transporter constructor is followed for.
MaxSplits == 6
\* Longest payload handed to compress.
MaxCompressLen == 2

---------------------------------------------------------------------------
\* Buffers.

Min(a, b) == IF a < b THEN a ELSE b
Max(a, b) == IF a > b THEN a ELSE b

\* The bytes lo+1 .. lo+n, as a buffer.
Bytes(lo, n) == [i \in 1..n |-> lo + i]

\* A relative index of TypedArray.prototype.subarray, resolved against len.
RelIndex(i, len) == IF i < 0 THEN Max(len + i, 0) ELSE Min(i, len)

\* buf.subarray(begin, end)
Subarray(buf, begin, end) ==
  SubSeq(buf, RelIndex(begin, Len(buf)) + 1, RelIndex(end, Len(buf)))

RECURSIVE Concat(_)
\* Buffer.concat(list)
Concat(list) == IF list = <<>> THEN <<>> ELSE Head(list) \o Concat(Tail(list))

RECURSIVE SumLen(_)
\* The sum of the byteLength of the buffers of list.
SumLen(list) == IF list = <<>> THEN 0 ELSE Len(Head(list)) + SumLen(Tail(list))

\* The code names passed to `new Exception(message, code)`.
OVERFLOW      == "ERR_STREAM_BUFFER_OVERFLOW"
END_OF_STREAM == "ERR_END_OF_STREAM"
UNDERFLOW     == "ERR_STREAM_BUFFER_UNDERFLOW"
\* Reading a property of undefined.
TYPE_ERROR    == "TypeError"
NONE          == "none"

\* The code names of enum ERROR_CODE, with their values.
ERROR_CODE ==
  [DONE |-> 0,
   ERR_STREAM_BUFFER_OVERFLOW |-> 1000,
   ERR_END_OF_STREAM |-> 1001,
   ERR_STREAM_BUFFER_UNDERFLOW |-> 1002,
   ERR_STREAM_INVALID_CHUNK |-> 1003,
   ERR_UNSUPPORTED_OPERATION |-> 1004]

\* The names an Exception is constructed with.
ErrorNames == DOMAIN ERROR_CODE

\* stringToErrno(code): a switch with the single case 'DONE'.
stringToErrno(code) == IF code = "DONE" THEN ERROR_CODE.DONE ELSE -1

\* Math.abs
Abs(n) == IF n < 0 THEN -n ELSE n

\* The `code` field of `new Exception(message, code)` for a code name.
ExceptionCode(code) ==
  LET c == -stringToErrno(code) IN
  IF Abs(c) = 0 THEN 0 ELSE c

---------------------------------------------------------------------------
\* ChunkStream[$read]

Outcome(cs, len, e, r) == [chunks |-> cs, length |-> len, err |-> e, ret |-> r]

RECURSIVE ReadLoop(_, _, _, _, _, _)
\* The while loop of the third branch: gathers byteCount bytes from the
\* chunks at index, index+1, ...; chunks[index] is undefined past the end.
ReadLoop(cs, len, byteCount, index, advance, result) ==
  IF byteCount > 0
  THEN IF index + 1 > Len(cs)
       THEN Outcome(cs, len, TYPE_ERROR, <<>>)
       ELSE LET chunk == cs[index + 1] IN
            IF Len(chunk) > byteCount
            THEN ReadLoop(IF advance
                            THEN [cs EXCEPT ![index + 1] = Subarray(chunk, byteCount, Len(chunk))]
                            ELSE cs,
                          IF advance THEN len - byteCount ELSE len,
                          byteCount - byteCount, index, advance,
                          result \o Subarray(chunk, 0, byteCount))
            ELSE ReadLoop(IF advance THEN Tail(cs) ELSE cs,
                          IF advance THEN len - Len(chunk) ELSE len,
                          byteCount - Len(chunk),
                          IF advance THEN index ELSE index + 1,
                          advance, result \o chunk)
  ELSE Outcome(cs, len, NONE, result)

\* this[$read] without `if(byteCount > this[$byteLength]) throw ...`.
DoRead_NoUnderflowCheck(cs, len, byteCount, advance) ==
  IF byteCount = 0 THEN Outcome(cs, len, NONE, <<>>)
  ELSE IF cs = <<>> THEN Outcome(cs, len, TYPE_ERROR, <<>>)
  ELSE IF Len(cs[1]) = byteCount
    THEN Outcome(IF advance THEN Tail(cs) ELSE cs,
                 IF advance THEN len - byteCount ELSE len, NONE, cs[1])
  ELSE IF Len(cs[1]) > byteCount
    THEN Outcome(IF advance
                   THEN [cs EXCEPT ![1] = Subarray(cs[1], byteCount, Len(cs[1]))]
                   ELSE cs,
                 IF advance THEN len - byteCount ELSE len, NONE,
                 Subarray(cs[1], 0, byteCount))
  ELSE ReadLoop(cs, len, byteCount, 0, advance, <<>>)

\* this[$read](byteCount, advance) on the queue (cs, len).
DoRead(cs, len, byteCount, advance) ==
  IF byteCount = 0 THEN Outcome(cs, len, NONE, <<>>)
  ELSE IF byteCount > len THEN Outcome(cs, len, UNDERFLOW, <<>>)
  ELSE IF cs = <<>> THEN Outcome(cs, len, TYPE_ERROR, <<>>)
  ELSE IF Len(cs[1]) = byteCount
    THEN Outcome(IF advance THEN Tail(cs) ELSE cs,
                 IF advance THEN len - byteCount ELSE len, NONE, cs[1])
  ELSE IF Len(cs[1]) > byteCount
    THEN Outcome(IF advance
                   THEN [cs EXCEPT ![1] = Subarray(cs[1], byteCount, Len(cs[1]))]
                   ELSE cs,
                 IF advance THEN len - byteCount ELSE len, NONE,
                 Subarray(cs[1], 0, byteCount))
  ELSE ReadLoop(cs, len, byteCount, 0, advance, <<>>)

---------------------------------------------------------------------------
\* The byte counts requested of read and peek.  A negative count is a number
\* like any other to read(byteCount: number).
Counts == -1..MaxCount

Call(o, n, b, e, r) ==
  /\ op' = o
  /\ argN' = n
  /\ argBuf' = b
  /\ err' = e
  /\ ret' = r

---------------------------------------------------------------------------
\* ChunkStream

\* acceptChunk without its guard: a finished queue still takes the buffer.
AcceptChunkOn_NoFinishCheck(buffer) ==
  /\ chunks' = Append(chunks, buffer)
  /\ length' = length + Len(buffer)
  /\ nextByte' = nextByte + Len(buffer)
  /\ Call("acceptChunk", 0, buffer, NONE, <<>>)
  /\ UNCHANGED <<finish, disposed>>

\* acceptChunk(buffer)
AcceptChunkOn(buffer) ==
  IF finish = TRUE
  THEN /\ Call("acceptChunk", 0, buffer, OVERFLOW, <<>>)
       /\ UNCHANGED <<queueVars, nextByte>>
  ELSE /\ chunks' = Append(chunks, buffer)
       /\ length' = length + Len(buffer)
       /\ nextByte' = nextByte + Len(buffer)
       /\ Call("acceptChunk", 0, buffer, NONE, <<>>)
       /\ UNCHANGED <<finish, disposed>>

AcceptChunk ==
  /\ \E n \in 0..MaxChunkLen :
       /\ nextByte + n <= MaxBytes
       /\ Len(chunks) < MaxChunks
       /\ AcceptChunkOn(Bytes(nextByte, n))
  /\ UNCHANGED <<ctorVars, sendVars, loopVars, zipVars, pipeVars, envVars, cryptoVars, codecVars, snapVars, streamVars, destroyed>>

\* peek passing advance = true: this[$read](byteCount, true) for both.
ReadWith_AlwaysAdvance(name, byteCount, advance) ==
  LET o == DoRead(chunks, length, byteCount, TRUE) IN
  /\ o.length <= SumLen(o.chunks) + MaxDrift
  /\ chunks' = o.chunks
  /\ length' = o.length
  /\ Call(name, byteCount, <<>>, o.err, o.ret)
  /\ UNCHANGED <<finish, disposed, nextByte, ctorVars, sendVars, loopVars, zipVars, pipeVars, envVars, cryptoVars, codecVars, snapVars, streamVars, destroyed>>

\* read(byteCount) / peek(byteCount): this[$read](byteCount, advance)
ReadWith(name, byteCount, advance) ==
  LET o == DoRead(chunks, length, byteCount, advance) IN
  /\ o.length <= SumLen(o.chunks) + MaxDrift
  /\ chunks' = o.chunks
  /\ length' = o.length
  /\ Call(name, byteCount, <<>>, o.err, o.ret)
  /\ UNCHANGED <<finish, disposed, nextByte, ctorVars, sendVars, loopVars, zipVars, pipeVars, envVars, cryptoVars, codecVars, snapVars, streamVars, destroyed>>

Read == \E byteCount \in Counts : ReadWith("read", byteCount, TRUE)

Peek == \E byteCount \in Counts : ReadWith("peek", byteCount, FALSE)

\* end() without its guard: a second end() returns the concatenation again.
EndBase_NoGuard ==
  /\ finish' = TRUE
  /\ Call("end", 0, <<>>, NONE, Concat(chunks))
  /\ UNCHANGED <<chunks, length, disposed>>

\* ChunkStream.end()
EndBase ==
  IF finish = TRUE
  THEN /\ Call("end", 0, <<>>, END_OF_STREAM, <<>>)
       /\ UNCHANGED queueVars
  ELSE /\ finish' = TRUE
       /\ Call("end", 0, <<>>, NONE, Concat(chunks))
       /\ UNCHANGED <<chunks, length, disposed>>

End ==
  /\ kind = "ChunkStream"
  /\ EndBase
  /\ UNCHANGED <<nextByte, ctorVars, sendVars, loopVars, zipVars, pipeVars, envVars, cryptoVars, codecVars, snapVars, streamVars, destroyed>>

\* ChunkStream.return(), as a call named o
ReturnBase(o) ==
  /\ IF disposed = TRUE THEN Call(o, 0, <<>>, UNDERFLOW, <<>>)
     ELSE IF ~finish THEN Call(o, 0, <<>>, UNDERFLOW, <<>>)
     ELSE Call(o, 0, <<>>, NONE, Concat(chunks))
  /\ UNCHANGED queueVars

Return ==
  /\ ReturnBase("return")
  /\ UNCHANGED <<nextByte, ctorVars, sendVars, loopVars, zipVars, pipeVars, envVars, cryptoVars, codecVars, snapVars, streamVars, destroyed>>

\* The contents of the array the last successful chunks() handed out.
SnapNow == IF snapLive THEN chunks ELSE snap

\* chunks() returning this[$chunks] itself instead of a copy of it.
ChunksOn_NoCopy ==
  IF disposed = TRUE
  THEN Call("chunks", 0, <<>>, UNDERFLOW, <<>>) /\ UNCHANGED snapVars
  ELSE IF ~finish
  THEN Call("chunks", 0, <<>>, UNDERFLOW, <<>>) /\ UNCHANGED snapVars
  ELSE /\ Call("chunks", 0, <<>>, NONE, <<>>)
       /\ snap' = chunks
       /\ snapLive' = TRUE

\* chunks(): Object.freeze([ ...this[$chunks] ])
ChunksOn ==
  IF disposed = TRUE
  THEN Call("chunks", 0, <<>>, UNDERFLOW, <<>>) /\ UNCHANGED snapVars
  ELSE IF ~finish
  THEN Call("chunks", 0, <<>>, UNDERFLOW, <<>>) /\ UNCHANGED snapVars
  ELSE /\ Call("chunks", 0, <<>>, NONE, <<>>)
       /\ snap' = chunks
       /\ snapLive' = FALSE

Chunks ==
  /\ ChunksOn
  /\ UNCHANGED <<queueVars, nextByte, ctorVars, sendVars, loopVars, zipVars, pipeVars, envVars, cryptoVars, codecVars, streamVars, destroyed>>

\* dispose() without `this.end()`.
Dispose_NoEnd ==
  /\ IF disposed = TRUE
     THEN UNCHANGED <<queueVars, destroyed, snapVars>>
     ELSE /\ length' = 0
          /\ chunks' = <<>>
          /\ snap' = SnapNow
          /\ snapLive' = FALSE
          /\ disposed' = TRUE
          /\ UNCHANGED <<finish, destroyed>>
  /\ Call("dispose", 0, <<>>, NONE, <<>>)
  /\ UNCHANGED <<nextByte, ctorVars, sendVars, loopVars, zipVars, pipeVars, envVars, cryptoVars, codecVars, streamVars>>

\* dispose(): `this.end()` is ChunkStream.end on a plain ChunkStream and
\* Transporter.end on a Transporter; what it throws is swallowed.
\* `this[$chunks] = []` binds a new array: an array handed out earlier keeps
\* what it held.
Dispose ==
  /\ IF disposed = TRUE
     THEN UNCHANGED <<queueVars, destroyed, snapVars>>
     ELSE /\ finish' = TRUE
          /\ destroyed' = IF kind = "Transporter" THEN TRUE ELSE destroyed
          /\ length' = 0
          /\ chunks' = <<>>
          /\ snap' = SnapNow
          /\ snapLive' = FALSE
          /\ disposed' = TRUE
  /\ Call("dispose", 0, <<>>, NONE, <<>>)
  /\ UNCHANGED <<nextByte, ctorVars, sendVars, loopVars, zipVars, pipeVars, envVars, cryptoVars, codecVars, streamVars>>

InitQueue ==
  /\ value = <<>>
  /\ parsed = <<>>
  /\ subs = <<>>
  /\ compressed = FALSE
  /\ loopOffset = 0
  /\ ctor = "done"
  /\ promise = "idle"
  /\ chunksCount = 0
  /\ res = [head |-> FALSE, written |-> <<>>, ended |-> FALSE]
  /\ w = [writing |-> FALSE, buffered |-> <<>>, ending |-> FALSE]
  /\ piped = 0
  /\ kind = "ChunkStream"
  /\ chunks = <<>>
  /\ length = 0
  /\ finish = FALSE
  /\ disposed = FALSE
  /\ nextByte = 0
  /\ payload = <<>>
  /\ maxLength = 0
  /\ streamChunks = <<>>
  /\ chunksNull = TRUE
  /\ currentChunkIndex = 0
  /\ destroyed = FALSE
  /\ pushed = <<>>
  /\ pushRets = <<>>
  /\ eos = 0
  /\ op = "new"
  /\ argN = 0
  /\ argBuf = <<>>
  /\ err = NONE
  /\ ret = <<>>
  /\ snap = <<>>
  /\ snapLive = FALSE
  /\ originalPayload = 0
  /\ ready = FALSE
  /\ signature = 0
  /\ transporter = 0
  /\ algorithmIdentifier = 0
  /\ pc = <<>>
  /\ rejection = <<>>
  /\ got = 0
  /\ algorithm = ""
  /\ password = 0
  /\ hmacKey = "absent"
  /\ hk = <<>>
  /\ sk = <<>>
  /\ aes = <<>>
  /\ out = <<>>

NextQueue == AcceptChunk \/ Read \/ Peek \/ End \/ Return \/ Chunks \/ Dispose

\* A ChunkStream under any sequence of calls of its public methods.
SpecQueue == InitQueue /\ [][NextQueue]_vars

---------------------------------------------------------------------------
\* ChunkStream.pipe and listenStream

\* Thrown by _buffer(chunk) for a chunk that is no buffer, string or view.
INVALID_CHUNK == "ERR_STREAM_INVALID_CHUNK"

\* The `token` argument of pipe: left out, or a token not yet cancelled.
Tokens == {"absent", "live"}

\* pipe(source, token) without `if(!this[$finish]) throw ...`.
PipeOn_NoFinishCheck(token) ==
  IF disposed = TRUE
  THEN Call("pipe", 0, <<>>, UNDERFLOW, <<>>) /\ UNCHANGED subs
  ELSE /\ Call("pipe", 0, <<>>, NONE, <<>>)
       /\ subs' = Append(subs, token)

\* pipe(source, token): listenStream(source, ...) subscribes to the source.
PipeOn(token) ==
  IF disposed = TRUE
  THEN Call("pipe", 0, <<>>, UNDERFLOW, <<>>) /\ UNCHANGED subs
  ELSE IF ~finish
  THEN Call("pipe", 0, <<>>, UNDERFLOW, <<>>) /\ UNCHANGED subs
  ELSE /\ Call("pipe", 0, <<>>, NONE, <<>>)
       /\ subs' = Append(subs, token)

Pipe ==
  /\ Len(subs) < MaxPipes
  /\ \E token \in Tokens : PipeOn(token)
  /\ UNCHANGED <<queueVars, nextByte, ctorVars, sendVars, loopVars, zipVars, envVars, cryptoVars, codecVars, snapVars, streamVars, destroyed>>

\* token.cancel() on the token given to the i-th pipe().
Cancel ==
  /\ \E i \in DOMAIN subs :
       /\ subs[i] = "live"
       /\ subs' = [subs EXCEPT ![i] = "cancelled"]
       /\ Call("cancel", i, <<>>, NONE, <<>>)
  /\ UNCHANGED <<queueVars, nextByte, ctorVars, sendVars, loopVars, zipVars, envVars, cryptoVars, codecVars, snapVars, streamVars, destroyed>>

\* The 'data' listener of listenStream around pipe's onData, for a chunk
\* the i-th source emits; isBuffer: _buffer(chunk) converts it. `err` is
\* what onData emits as 'error', "none" when it emits nothing.
OnData(i, buffer, isBuffer) ==
  IF subs[i] = "cancelled"
  THEN /\ Call("data", i, buffer, NONE, <<>>)
       /\ UNCHANGED <<queueVars, nextByte>>
  ELSE IF ~isBuffer
  THEN /\ Call("data", i, <<>>, INVALID_CHUNK, <<>>)
       /\ UNCHANGED <<queueVars, nextByte>>
  ELSE IF finish = TRUE
  THEN /\ Call("data", i, buffer, OVERFLOW, <<>>)
       /\ UNCHANGED <<queueVars, nextByte>>
  ELSE /\ chunks' = Append(chunks, buffer)
       /\ length' = length + Len(buffer)
       /\ nextByte' = nextByte + Len(buffer)
       /\ Call("data", i, buffer, NONE, <<>>)
       /\ UNCHANGED <<finish, disposed>>

SourceData ==
  /\ \E i \in DOMAIN subs, n \in 0..MaxChunkLen, isBuffer \in BOOLEAN :
       /\ nextByte + n <= MaxBytes
       /\ Len(chunks) < MaxChunks
       /\ OnData(i, Bytes(nextByte, n), isBuffer)
  /\ UNCHANGED <<ctorVars, sendVars, loopVars, zipVars, envVars, cryptoVars, codecVars, snapVars, streamVars, destroyed, subs>>

\* The 'error' listener of listenStream around pipe's onError: the error
\* of the source is emitted on the queue unless the token is cancelled.
SourceError ==
  /\ \E i \in DOMAIN subs :
       Call("error", i, <<>>, IF subs[i] = "cancelled" THEN NONE ELSE "Error", <<>>)
  /\ UNCHANGED <<queueVars, nextByte, ctorVars, sendVars, loopVars, zipVars, envVars, cryptoVars, codecVars, snapVars, streamVars, destroyed, subs>>

NextPipe ==
  \/ AcceptChunk \/ Read \/ End \/ Return \/ Chunks \/ Dispose
  \/ Pipe \/ Cancel \/ SourceData \/ SourceError

\* A ChunkStream under any sequence of calls of its public methods, pipe
\* included, and of events of the sources it was piped from (peek, which
\* runs read's code without advancing, is left to SpecQueue).
SpecPipe == InitQueue /\ [][NextPipe]_vars

---------------------------------------------------------------------------
\* Transporter

RECURSIVE SplitLoop_DropTail(_, _, _, _)
\* The loop stopping one slice early: `offset + width < byteLength`.
SplitLoop_DropTail(_payload, width, offset, acc) ==
  IF offset + width < Len(_payload)
  THEN LET end == Min(offset + width, Len(_payload)) IN
       SplitLoop_DropTail(_payload, width, offset + width,
                          Append(acc, Subarray(_payload, offset, end)))
  ELSE acc

RECURSIVE SplitLoop(_, _, _, _)
\* The while loop of the constructor: one acceptChunk per slice.
SplitLoop(_payload, width, offset, acc) ==
  IF offset < Len(_payload)
  THEN LET end == Min(offset + width, Len(_payload)) IN
       SplitLoop(_payload, width, offset + width,
                 Append(acc, Subarray(_payload, offset, end)))
  ELSE acc

\* The buffers the constructor hands to super.acceptChunk, in order.
Split(_payload, width) ==
  IF Len(_payload) <= width
  THEN <<_payload>>
  ELSE SplitLoop(_payload, width, 0, <<>>)

\* new Transporter(_payload, _maxBlockSize): the chunks are accepted, the
\* queue is ended, and the closure keeps the frozen copy chunks() returns.
InitTransporter ==
  \E n \in 0..MaxPayloadLen, _maxBlockSize \in 1..MaxBlock :
    /\ value = <<>>
    /\ parsed = <<>>
    /\ subs = <<>>
    /\ compressed = FALSE
    /\ loopOffset = 0
    /\ ctor = "done"
    /\ promise = "idle"
    /\ chunksCount = 0
    /\ res = [head |-> FALSE, written |-> <<>>, ended |-> FALSE]
    /\ w = [writing |-> FALSE, buffered |-> <<>>, ending |-> FALSE]
    /\ piped = 0
    /\ kind = "Transporter"
    /\ payload = Bytes(0, n)
    /\ maxLength = _maxBlockSize
    /\ chunks = Split(payload, maxLength)
    /\ length = SumLen(chunks)
    /\ finish = TRUE
    /\ disposed = FALSE
    /\ nextByte = n
    /\ streamChunks = chunks
    /\ chunksNull = FALSE
    /\ currentChunkIndex = 0
    /\ destroyed = FALSE
    /\ pushed = <<>>
    /\ pushRets = <<>>
    /\ eos = 0
    /\ op = "constructor"
    /\ argN = _maxBlockSize
    /\ argBuf = payload
    /\ err = NONE
    /\ ret = <<>>
    /\ snap = chunks
    /\ snapLive = FALSE
    /\ originalPayload = 0
    /\ ready = FALSE
    /\ signature = 0
    /\ transporter = 0
    /\ algorithmIdentifier = 0
    /\ pc = <<>>
    /\ rejection = <<>>
    /\ got = 0
    /\ algorithm = ""
    /\ password = 0
    /\ hmacKey = "absent"
    /\ hk = <<>>
    /\ sk = <<>>
    /\ aes = <<>>
    /\ out = <<>>

\* The default width, imported from ./@internals/constants: a positive
\* constant.
MAX_CHUNK_SIZE == 2

\* The values of the argument _maxBlockSize: left out (<<>>), or a number.
BlockSizes == {<<>>} \cup {<<n>> : n \in -MaxNegative..MaxBlock}

\* `_maxBlockSize = MAX_CHUNK_SIZE` of the parameter list
DefaultParameter(_maxBlockSize) ==
  IF _maxBlockSize = <<>> THEN MAX_CHUNK_SIZE ELSE _maxBlockSize[1]

\* _maxBlockSize || MAX_CHUNK_SIZE: 0 is the falsy number.
OrMaxChunkSize(n) == IF n = 0 THEN MAX_CHUNK_SIZE ELSE n

\* What the constructor's steps leave alone.
ctorFrame == <<kind, payload, pipeVars, zipVars, sendVars, envVars, cryptoVars, codecVars,
               destroyed, pushed, pushRets, eos, disposed>>

\* The constructor up to the test `_payload.byteLength <= this.#maxLength`:
\* a payload that fits is accepted whole, any other enters the loop.
ConstructorEnter ==
  /\ ctor = "new"
  /\ \E _maxBlockSize \in BlockSizes :
       LET width == OrMaxChunkSize(DefaultParameter(_maxBlockSize)) IN
       /\ maxLength' = width
       /\ Call("constructor", width, payload, NONE, <<>>)
       /\ IF Len(payload) <= width
          THEN /\ chunks' = Append(chunks, payload)
               /\ length' = length + Len(payload)
               /\ nextByte' = nextByte + Len(payload)
               /\ ctor' = "end"
          ELSE /\ ctor' = "loop"
               /\ UNCHANGED <<chunks, length, nextByte>>
  /\ loopOffset' = 0
  /\ UNCHANGED <<finish, streamChunks, chunksNull, currentChunkIndex, snapVars, ctorFrame>>

\* One turn of the while loop; MaxSplits bounds the turns followed.
ConstructorLoop ==
  /\ ctor = "loop"
  /\ loopOffset < Len(payload)
  /\ Len(chunks) < MaxSplits
  /\ LET end == Min(loopOffset + maxLength, Len(payload))
         slice == Subarray(payload, loopOffset, end)
     IN /\ chunks' = Append(chunks, slice)
        /\ length' = length + Len(slice)
        /\ nextByte' = nextByte + Len(slice)
        /\ Call("constructor:loop", loopOffset, slice, NONE, <<>>)
  /\ loopOffset' = loopOffset + maxLength
  /\ UNCHANGED <<ctor, maxLength, finish, streamChunks, chunksNull, currentChunkIndex, snapVars, ctorFrame>>

\* From the end of the loop on: super.end(), then the closure takes the
\* frozen copy super.chunks() returns.
ConstructorEnd ==
  /\ \/ ctor = "end"
     \/ ctor = "loop" /\ ~(loopOffset < Len(payload))
  /\ ctor' = "done"
  /\ finish' = TRUE
  /\ streamChunks' = chunks
  /\ chunksNull' = FALSE
  /\ currentChunkIndex' = 0
  /\ snap' = chunks
  /\ snapLive' = FALSE
  /\ Call("constructor:end", 0, <<>>, NONE, <<>>)
  /\ UNCHANGED <<chunks, length, nextByte, maxLength, loopOffset, ctorFrame>>

InitSplit ==
  /\ value = <<>>
  /\ parsed = <<>>
  /\ subs = <<>>
  /\ compressed = FALSE
  /\ loopOffset = 0
  /\ ctor = "new"
  /\ promise = "idle"
  /\ chunksCount = 0
  /\ res = [head |-> FALSE, written |-> <<>>, ended |-> FALSE]
  /\ w = [writing |-> FALSE, buffered |-> <<>>, ending |-> FALSE]
  /\ piped = 0
  /\ kind = "Transporter"
  /\ chunks = <<>>
  /\ length = 0
  /\ finish = FALSE
  /\ disposed = FALSE
  /\ nextByte = 0
  /\ payload \in {Bytes(0, n) : n \in 0..MaxSplitLen}
  /\ maxLength = 0
  /\ streamChunks = <<>>
  /\ chunksNull = TRUE
  /\ currentChunkIndex = 0
  /\ destroyed = FALSE
  /\ pushed = <<>>
  /\ pushRets = <<>>
  /\ eos = 0
  /\ op = "new"
  /\ argN = 0
  /\ argBuf = <<>>
  /\ err = NONE
  /\ ret = <<>>
  /\ snap = <<>>
  /\ snapLive = FALSE
  /\ originalPayload = 0
  /\ ready = FALSE
  /\ signature = 0
  /\ transporter = 0
  /\ algorithmIdentifier = 0
  /\ pc = <<>>
  /\ rejection = <<>>
  /\ got = 0
  /\ algorithm = ""
  /\ password = 0
  /\ hmacKey = "absent"
  /\ hk = <<>>
  /\ sk = <<>>
  /\ aes = <<>>
  /\ out = <<>>

NextSplit == ConstructorEnter \/ ConstructorLoop \/ ConstructorEnd

\* new Transporter(_payload, _maxBlockSize), statement by statement.
SpecSplit == InitSplit /\ [][NextSplit]_vars

\* The constructor runs to completion: no step of it waits for anything.
LiveSplit == SpecSplit /\ WF_vars(NextSplit)

\* What Readable.push answers to the calls of one handler run: answers[i]
\* is the answer to the i-th call, FALSE meaning "buffer full".  A destroyed
\* stream takes nothing and answers FALSE.
Answers(n) ==
  IF destroyed THEN {[i \in 1..n |-> FALSE]} ELSE [1..n -> BOOLEAN]

PushState(i, p, r, d) == [index |-> i, pushed |-> p, rets |-> r, done |-> d]

RECURSIVE PushLoop_NoAdvanceOnFull(_, _, _, _, _)
\* The loop incrementing the cursor only after an accepted push.
PushLoop_NoAdvanceOnFull(cs, index, answers, p, r) ==
  IF index < Len(cs)
  THEN LET a == answers[Len(r) + 1]
           p2 == Append(p, cs[index + 1])
           r2 == Append(r, a)
       IN IF ~a THEN PushState(index, p2, r2, FALSE)
          ELSE PushLoop_NoAdvanceOnFull(cs, index + 1, answers, p2, r2)
  ELSE PushState(index, p, r, TRUE)

RECURSIVE PushLoop_IgnoreFull(_, _, _, _, _)
\* The loop ignoring what push returns.
PushLoop_IgnoreFull(cs, index, answers, p, r) ==
  IF index < Len(cs)
  THEN PushLoop_IgnoreFull(cs, index + 1, answers,
                           Append(p, cs[index + 1]), Append(r, answers[Len(r) + 1]))
  ELSE PushState(index, p, r, TRUE)

RECURSIVE PushLoop(_, _, _, _, _)
\* while(currentChunkIndex < chunks.length)
\*   if(!push(chunks[currentChunkIndex++])) return;
\* done is TRUE when the loop ran to its end, FALSE when it returned.
PushLoop(cs, index, answers, p, r) ==
  IF index < Len(cs)
  THEN LET a == answers[Len(r) + 1]
           p2 == Append(p, cs[index + 1])
           r2 == Append(r, a)
       IN IF ~a THEN PushState(index + 1, p2, r2, FALSE)
          ELSE PushLoop(cs, index + 1, answers, p2, r2)
  ELSE PushState(index, p, r, TRUE)

\* The handler body without its last two statements: no push(null).
PushFromCursor_NoEnd(name) ==
  \E answers \in Answers(Len(streamChunks) - currentChunkIndex) :
    LET s == PushLoop(streamChunks, currentChunkIndex, answers, <<>>, <<>>) IN
    /\ currentChunkIndex' = s.index
    /\ pushed' = pushed \o s.pushed
    /\ pushRets' = pushRets \o s.rets
    /\ UNCHANGED <<streamChunks, chunksNull, eos>>
    /\ Call(name, 0, <<>>, NONE, <<>>)

\* The body shared by read() and the 'drain' listener: push from the
\* cursor on; when the loop ends, chunks = null and push(null).
PushFromCursor(name) ==
  \E answers \in Answers(Len(streamChunks) - currentChunkIndex) :
    LET s == PushLoop(streamChunks, currentChunkIndex, answers, <<>>, <<>>) IN
    /\ currentChunkIndex' = s.index
    /\ pushed' = pushed \o s.pushed
    /\ pushRets' = pushRets \o s.rets
    /\ streamChunks' = IF s.done THEN <<>> ELSE streamChunks
    /\ chunksNull' = s.done
    /\ eos' = IF s.done THEN eos + 1 ELSE eos
    /\ Call(name, 0, <<>>, NONE, <<>>)

\* Readable.read(): the consumer's pull request.  The Readable calls it
\* neither on a destroyed stream nor after push(null).
StreamRead ==
  /\ kind = "Transporter"
  /\ ~destroyed
  /\ eos = 0
  /\ PushFromCursor("_read")
  /\ UNCHANGED <<queueVars, nextByte, ctorVars, sendVars, loopVars, zipVars, pipeVars, envVars, cryptoVars, codecVars, snapVars, destroyed>>

\* The 'drain' listener without `if(!chunks) return`, null read as no chunks.
StreamDrain_NoNullCheck ==
  /\ kind = "Transporter"
  /\ PushFromCursor("drain")
  /\ UNCHANGED <<queueVars, nextByte, ctorVars, sendVars, loopVars, zipVars, pipeVars, envVars, cryptoVars, codecVars, snapVars, destroyed>>

\* The 'drain' listener.
StreamDrain ==
  /\ kind = "Transporter"
  /\ IF chunksNull
     THEN Call("drain", 0, <<>>, NONE, <<>>) /\ UNCHANGED streamVars
     ELSE PushFromCursor("drain")
  /\ UNCHANGED <<queueVars, nextByte, ctorVars, sendVars, loopVars, zipVars, pipeVars, envVars, cryptoVars, codecVars, snapVars, destroyed>>

\* Transporter.end()
TransporterEnd ==
  /\ kind = "Transporter"
  /\ destroyed' = TRUE
  /\ IF ~finish THEN EndBase ELSE ReturnBase("end")
  /\ UNCHANGED <<nextByte, ctorVars, sendVars, loopVars, zipVars, pipeVars, envVars, cryptoVars, codecVars, snapVars, streamVars>>

\* get byteSize
byteSize == length

NextTransporter ==
  \/ StreamRead \/ StreamDrain \/ TransporterEnd
  \/ AcceptChunk \/ Read \/ Peek \/ Return \/ Chunks \/ Dispose

\* A Transporter under any sequence of calls of its public methods and of
\* pull requests and 'drain' events on its stream.
SpecTransporter == InitTransporter /\ [][NextTransporter]_vars

\* The same, with a consumer that keeps pulling: a pull request that stays
\* possible is eventually served.
LiveTransporter == SpecTransporter /\ WF_vars(StreamRead)

---------------------------------------------------------------------------
\* ExpressAdapter.send

\* The chunks the Readable emits as 'data': those pushed, in order; an
\* empty buffer pushed in byte mode is no chunk.
Emitted == SelectSeq(pushed, LAMBDA c : c # <<>>)

\* What the steps of send() leave alone.
sendFrame == <<queueVars, streamVars, ctorVars, loopVars, zipVars, pipeVars, snapVars, envVars,
               cryptoVars, codecVars, nextByte, destroyed>>

\* send(): the promise executor, to stream.pipe(w) and writeHead.
Send ==
  /\ kind = "Transporter"
  /\ promise = "idle"
  /\ promise' = "pending"
  /\ chunksCount' = 0
  /\ res' = [res EXCEPT !.head = TRUE]
  /\ Call("send", 0, <<>>, NONE, <<>>)
  /\ UNCHANGED <<w, piped, sendFrame>>

\* w.write(chunk): a free Writable hands the chunk to the write
\* implementation, `(chunk) => { chunksCount++; this.#res.write(chunk); }`,
\* and waits for the callback, which the implementation never calls; a
\* Writable that waits queues the chunk.
WritableWrite(chunk) ==
  IF ~w.writing
  THEN /\ chunksCount' = chunksCount + 1
       /\ res' = [res EXCEPT !.written = Append(@, chunk)]
       /\ w' = [w EXCEPT !.writing = TRUE]
  ELSE /\ w' = [w EXCEPT !.buffered = Append(@, chunk)]
       /\ UNCHANGED <<chunksCount, res>>

\* A 'data' event of the piped stream: pipe hands the chunk to w.write.
StreamData ==
  /\ promise = "pending"
  /\ piped < Len(Emitted)
  /\ piped' = piped + 1
  /\ WritableWrite(Emitted[piped + 1])
  /\ Call("data", piped + 1, Emitted[piped + 1], NONE, <<>>)
  /\ UNCHANGED <<promise, sendFrame>>

\* The 'end' event of the piped stream, after push(null) and the last
\* chunk: pipe calls w.end().  A Writable with no write waiting and none
\* queued finishes and closes, and the 'close' listener ends the response
\* and resolves the promise with chunksCount.
StreamEnd ==
  /\ promise = "pending"
  /\ eos > 0
  /\ piped = Len(Emitted)
  /\ ~w.ending
  /\ w' = [w EXCEPT !.ending = TRUE]
  /\ IF ~w.writing /\ w.buffered = <<>>
     THEN /\ res' = [res EXCEPT !.ended = TRUE]
          /\ promise' = "resolved"
     ELSE UNCHANGED <<res, promise>>
  /\ Call("end", 0, <<>>, NONE, <<>>)
  /\ UNCHANGED <<chunksCount, piped, sendFrame>>

NextAdapter == Send \/ StreamRead \/ StreamData \/ StreamEnd

\* send() on an ExpressAdapter over a Transporter.
SpecAdapter == InitTransporter /\ [][NextAdapter]_vars

\* The same under Node's event loop: send() is called, the flowing stream
\* keeps being read, and an event that is due is delivered.
LiveAdapter ==
  /\ SpecAdapter
  /\ WF_vars(Send)
  /\ WF_vars(StreamRead)
  /\ WF_vars(StreamData)
  /\ WF_vars(StreamEnd)

---------------------------------------------------------------------------
\* SymmetricKey
\*
\* The secret is a buffer of which the code takes views only: a key is
\* modelled by the byte length of its secret, a view by the pair
\* <<lo, hi>> of the bytes [lo, hi) it covers, null by <<>>.  An option
\* that was not given is <<>>, one that was given is <<value>>.  A key
\* is the record of this[$key], this[$keyLength] and this[$options],
\* together with the options as the constructor was given them.

INVALID_ARGUMENT  == "ERR_INVALID_ARGUMENT"
INVALID_ALGORITHM == "ERR_INVALID_ALGORITHM"
INVALID_AUTH_TAG  == "ERR_INVALID_AUTH_TAG"
INVALID_IV        == "ERR_INVALID_IV_LENGTH"
STREAM_DISPOSED   == "ERR_STREAM_DISPOSED"

\* supportedVariants
Variants == {"aes-128-cbc", "aes-128-gcm", "aes-256-cbc", "aes-256-gcm"}

\* The algorithm names a key is given in the model.
Algorithms == Variants \cup {"chacha20-poly1305"}

\* a.includes('128'), a.includes('gcm'), a.startsWith('aes-'),
\* a.startsWith('chacha20') over those names and "undefined".
Includes128(a)        == a \in {"aes-128-cbc", "aes-128-gcm"}
IncludesGcm(a)        == a \in {"aes-128-gcm", "aes-256-gcm"}
StartsWithAes(a)      == a \in Variants
StartsWithChacha20(a) == a = "chacha20-poly1305"

\* The secret lengths, key lengths and option values keys are made of.
SecretLens == {n \in 0..MaxSecretLen : n % 8 \in {0, 1, 7}}
KeyLengths == {0, 16, 32}
LengthOptions == {<<>>, <<0>>, <<8>>, <<16>>}
AlgorithmOptions == {<<>>} \cup {<<a>> : a \in Algorithms}

Options(a, iv, tag, u) ==
  [algorithm |-> a, ivLength |-> iv, authTagLength |-> tag, usages |-> u]

\* key.subarray(begin, end) as a view of a secret of len bytes
View(len, begin, end) ==
  LET lo == RelIndex(begin, len)
      hi == RelIndex(end, len)
  IN <<lo, Max(lo, hi)>>

ByteLength(v) == v[2] - v[1]

Thrown(e) == [err |-> e, value |-> <<>>]
Returned(v) == [err |-> NONE, value |-> v]

\* The constructor's defaulting of options.ivLength: `!options.ivLength`
\* holds for an ivLength that was not given and for 0.
DefaultedOptions(options) ==
  IF options.algorithm # <<>>
     /\ (options.ivLength = <<>> \/ options.ivLength = <<0>>)
  THEN IF StartsWithAes(options.algorithm[1])
         THEN [options EXCEPT !.ivLength = <<16>>]
       ELSE IF StartsWithChacha20(options.algorithm[1])
         THEN [options EXCEPT !.ivLength = <<12>>]
       ELSE options
  ELSE options

\* The constructor accepting a secret one byte short of keyLength.
NewSymmetricKey_OffByOne(key, keyLength, options) ==
  IF key + 1 < keyLength THEN Thrown(INVALID_ARGUMENT)
  ELSE Returned([key |-> key, keyLength |-> keyLength,
                 options |-> DefaultedOptions(options), given |-> options])

\* new SymmetricKey(key, keyLength, options), key a buffer of `key` bytes
NewSymmetricKey(key, keyLength, options) ==
  IF key < keyLength THEN Thrown(INVALID_ARGUMENT)
  ELSE Returned([key |-> key, keyLength |-> keyLength,
                 options |-> DefaultedOptions(options), given |-> options])

\* get algorithm: ` ${this[$options].algorithm} `.slice(1, -1)
AlgorithmOf(k) ==
  IF k.options.algorithm = <<>> THEN "undefined" ELSE k.options.algorithm[1]

\* this[$options].x ?? (this.algorithm.includes('128') ? 16 : 32)
OrDefault(k, option) ==
  IF option # <<>> THEN option[1]
  ELSE IF Includes128(AlgorithmOf(k)) THEN 16 ELSE 32

\* get ivLength
IvLengthOf(k) == OrDefault(k, k.options.ivLength)

\* last(offset) throwing only when offset exceeds the secret by two.
Last_OffByOne(k, offset) ==
  IF k.key - offset < -1 THEN Thrown(INVALID_ARGUMENT)
  ELSE Returned(View(k.key, k.key - offset, k.key))

\* last(offset)
Last(k, offset) ==
  IF k.key - offset < 0 THEN Thrown(INVALID_ARGUMENT)
  ELSE Returned(View(k.key, k.key - offset, k.key))

\* getKey(), valueOf()
GetKey(k) == View(k.key, 0, k.keyLength)

\* iv() placing the IV at the start of the secret.
Iv_AtStart(k) ==
  IF k.keyLength = k.key THEN <<>>
  ELSE IF k.keyLength + IvLengthOf(k) > k.key THEN <<>>
  ELSE View(k.key, 0, IvLengthOf(k))

\* iv()
Iv(k) ==
  IF k.keyLength = k.key THEN <<>>
  ELSE IF k.keyLength + IvLengthOf(k) > k.key THEN <<>>
  ELSE View(k.key, k.keyLength, k.keyLength + IvLengthOf(k))

\* authTag()
AuthTag(k) ==
  LET o == OrDefault(k, k.options.authTagLength) IN
  IF k.keyLength = k.key THEN <<>>
  ELSE IF k.keyLength + IvLengthOf(k) + o > k.key THEN <<>>
  ELSE View(k.key, k.keyLength + OrDefault(k, k.options.ivLength),
            k.keyLength + OrDefault(k, k.options.ivLength) + o)

\* What the calls on a SymmetricKey leave alone.
keyFrame == <<queueVars, streamVars, ctorVars, sendVars, loopVars, zipVars, pipeVars, snapVars, envVars, codecVars, nextByte,
              destroyed, ret, aes>>

\* A call on the key: argBuf holds the secret length and the keyLength the
\* constructor was called with, argN the offset last() was called with.
KeyCall(o, n, b, r) ==
  /\ op' = o
  /\ argN' = n
  /\ argBuf' = b
  /\ err' = r.err
  /\ out' = r.value

KeyNew ==
  /\ sk = <<>>
  /\ \E key \in SecretLens, keyLength \in KeyLengths,
        a \in AlgorithmOptions, iv \in LengthOptions, tag \in LengthOptions :
       LET r == NewSymmetricKey(key, keyLength, Options(a, iv, tag, TRUE)) IN
       /\ sk' = r.value
       /\ KeyCall("new SymmetricKey", 0, <<key, keyLength>>, [r EXCEPT !.value = <<>>])
  /\ UNCHANGED keyFrame

KeyGetKey ==
  /\ sk # <<>>
  /\ KeyCall("getKey", 0, <<>>, Returned(GetKey(sk)))
  /\ UNCHANGED <<sk, keyFrame>>

KeyIv ==
  /\ sk # <<>>
  /\ KeyCall("iv", 0, <<>>, Returned(Iv(sk)))
  /\ UNCHANGED <<sk, keyFrame>>

KeyAuthTag ==
  /\ sk # <<>>
  /\ KeyCall("authTag", 0, <<>>, Returned(AuthTag(sk)))
  /\ UNCHANGED <<sk, keyFrame>>

\* The offsets last() is called with.
LastOffsets(k) == {0, 14, k.key, k.key + 1}

KeyLast ==
  /\ sk # <<>>
  /\ \E offset \in LastOffsets(sk) : KeyCall("last", offset, <<>>, Last(sk, offset))
  /\ UNCHANGED <<sk, keyFrame>>

InitKey ==
  /\ value = <<>>
  /\ parsed = <<>>
  /\ subs = <<>>
  /\ compressed = FALSE
  /\ loopOffset = 0
  /\ ctor = "done"
  /\ promise = "idle"
  /\ chunksCount = 0
  /\ res = [head |-> FALSE, written |-> <<>>, ended |-> FALSE]
  /\ w = [writing |-> FALSE, buffered |-> <<>>, ending |-> FALSE]
  /\ piped = 0
  /\ kind = "SymmetricKey"
  /\ sk = <<>>
  /\ aes = <<>>
  /\ out = <<>>
  /\ op = "none"
  /\ argN = 0
  /\ argBuf = <<>>
  /\ err = NONE
  /\ ret = <<>>
  /\ chunks = <<>>
  /\ length = 0
  /\ finish = FALSE
  /\ disposed = FALSE
  /\ nextByte = 0
  /\ payload = <<>>
  /\ maxLength = 0
  /\ streamChunks = <<>>
  /\ chunksNull = TRUE
  /\ currentChunkIndex = 0
  /\ destroyed = FALSE
  /\ pushed = <<>>
  /\ pushRets = <<>>
  /\ eos = 0
  /\ snap = <<>>
  /\ snapLive = FALSE
  /\ originalPayload = 0
  /\ ready = FALSE
  /\ signature = 0
  /\ transporter = 0
  /\ algorithmIdentifier = 0
  /\ pc = <<>>
  /\ rejection = <<>>
  /\ got = 0
  /\ algorithm = ""
  /\ password = 0
  /\ hmacKey = "absent"
  /\ hk = <<>>

NextKey == KeyNew \/ KeyGetKey \/ KeyIv \/ KeyAuthTag \/ KeyLast

\* SymmetricKeys constructed from any secret length, key length and
\* options, under any sequence of calls of their methods.
SpecKey == InitKey /\ [][NextKey]_vars

---------------------------------------------------------------------------
\* AES
\*
\* A cipher is the record of its variant (this._o.variant) and of the
\* this[$finish] it inherits from ChunkStream; its key is sk.  The data fed
\* by update() is opaque: what encrypt() and decrypt() return is written
\* <<"output">>.

UNSUPPORTED  == "ERR_UNSUPPORTED_OPERATION"
INVALID_TYPE == "ERR_INVALID_TYPE"
\* What node:crypto throws for a key or an IV of the wrong length, and when
\* final() rejects the data.
CRYPTO_INVALID_KEYLEN == "ERR_CRYPTO_INVALID_KEYLEN"
CRYPTO_INVALID_IV     == "ERR_CRYPTO_INVALID_IV"
CRYPTO_FAILED         == "ERR_OSSL_EVP"

\* new AES(key, { variant }) without the authentication-tag test.
NewAES_NoTagCheck(k, variant) ==
  IF ~k.options.usages THEN Thrown(UNSUPPORTED)
  ELSE IF AlgorithmOf(k) # variant THEN Thrown(INVALID_ALGORITHM)
  ELSE Returned([variant |-> variant, finish |-> FALSE])

\* new AES(key, { variant }), key a SymmetricKey, variant a supported one:
\* the key's algorithm is never the empty string and the variant is set,
\* so the algorithm test is `key.algorithm !== variant`.
NewAES(k, variant) ==
  IF ~k.options.usages THEN Thrown(UNSUPPORTED)
  ELSE IF AlgorithmOf(k) # variant THEN Thrown(INVALID_ALGORITHM)
  ELSE IF IncludesGcm(variant) /\ AuthTag(k) = <<>> THEN Thrown(INVALID_AUTH_TAG)
  ELSE Returned([variant |-> variant, finish |-> FALSE])

\* crypto.createCipheriv / createDecipheriv(variant, key, iv): the key must
\* have the variant's length, and a cbc IV exactly 16 bytes.
CreateCipheriv(variant, key, iv) ==
  IF ByteLength(key) # (IF Includes128(variant) THEN 16 ELSE 32)
    THEN CRYPTO_INVALID_KEYLEN
  ELSE IF ~IncludesGcm(variant) /\ ByteLength(iv) # 16
    THEN CRYPTO_INVALID_IV
  ELSE NONE

Ciphered(e, v, f) == [err |-> e, value |-> v, finish |-> f]

\* encrypt() and decrypt() without the authentication-tag test.
Cipher_NoTagCheck(c, k, decrypting, accepted) ==
  LET iv == Iv(k) IN
  IF c.finish THEN Ciphered(STREAM_DISPOSED, <<>>, c.finish)
  ELSE IF iv = <<>> \/ ByteLength(iv) < 16 THEN Ciphered(INVALID_IV, <<>>, c.finish)
  ELSE IF CreateCipheriv(c.variant, GetKey(k), iv) # NONE
    THEN Ciphered(CreateCipheriv(c.variant, GetKey(k), iv), <<>>, c.finish)
  ELSE IF IncludesGcm(c.variant) /\ ~decrypting
    THEN Ciphered(TYPE_ERROR, <<>>, c.finish)
  ELSE IF ~accepted THEN Ciphered(CRYPTO_FAILED, <<>>, TRUE)
  ELSE Ciphered(NONE, <<"output">>, TRUE)

\* encrypt() (decrypting = FALSE) and decrypt() (decrypting = TRUE) of
\* cipher c with key k.  `accepted` is the verdict of the primitive's
\* update() and final() on the data.  An encrypting cipher of node:crypto
\* has no setAuthTag: calling it is a TypeError.  this.end() is evaluated
\* once the tests have passed.
Cipher(c, k, decrypting, accepted) ==
  LET iv  == Iv(k)
      tag == AuthTag(k)
  IN
  IF c.finish THEN Ciphered(STREAM_DISPOSED, <<>>, c.finish)
  ELSE IF iv = <<>> \/ ByteLength(iv) < 16 THEN Ciphered(INVALID_IV, <<>>, c.finish)
  ELSE IF CreateCipheriv(c.variant, GetKey(k), iv) # NONE
    THEN Ciphered(CreateCipheriv(c.variant, GetKey(k), iv), <<>>, c.finish)
  ELSE IF IncludesGcm(c.variant) /\ (tag = <<>> \/ ByteLength(tag) < 16)
    THEN Ciphered(INVALID_AUTH_TAG, <<>>, c.finish)
  ELSE IF IncludesGcm(c.variant) /\ ~decrypting
    THEN Ciphered(TYPE_ERROR, <<>>, c.finish)
  ELSE IF ~accepted THEN Ciphered(CRYPTO_FAILED, <<>>, TRUE)
  ELSE Ciphered(NONE, <<"output">>, TRUE)

\* What the calls on a cipher leave alone.
cipherFrame == <<queueVars, streamVars, ctorVars, sendVars, loopVars, zipVars, pipeVars, snapVars, envVars, codecVars, nextByte,
                 destroyed, ret, argN>>

\* The key lengths the ciphers' keys are constructed with.
CipherKeyLengths == {16, 32}

\* new SymmetricKey(...), of a key that was constructed
CipherKey ==
  /\ sk = <<>>
  /\ \E key \in SecretLens, keyLength \in CipherKeyLengths,
        a \in AlgorithmOptions, iv \in LengthOptions, tag \in LengthOptions,
        u \in BOOLEAN :
       LET r == NewSymmetricKey(key, keyLength, Options(a, iv, tag, u)) IN
       /\ r.err = NONE
       /\ sk' = r.value
       /\ op' = "new SymmetricKey"
       /\ argBuf' = <<>>
       /\ err' = NONE
       /\ out' = <<>>
  /\ UNCHANGED <<aes, cipherFrame>>

\* new AES(sk, { variant }): argBuf holds the variant
AesNew ==
  /\ sk # <<>>
  /\ aes = <<>>
  /\ \E variant \in Variants :
       LET r == NewAES(sk, variant) IN
       /\ aes' = r.value
       /\ op' = "new AES"
       /\ argBuf' = <<variant>>
       /\ err' = r.err
       /\ out' = <<>>
  /\ UNCHANGED <<sk, cipherFrame>>

CipherStep(name, decrypting) ==
  /\ sk # <<>>
  /\ aes # <<>>
  /\ \E accepted \in (IF decrypting THEN BOOLEAN ELSE {TRUE}) :
       LET r == Cipher(aes, sk, decrypting, accepted) IN
       /\ aes' = [aes EXCEPT !.finish = r.finish]
       /\ op' = name
       /\ argBuf' = <<aes.variant>>
       /\ err' = r.err
       /\ out' = r.value
  /\ UNCHANGED <<sk, cipherFrame>>

AesEncrypt == CipherStep("encrypt", FALSE)

AesDecrypt == CipherStep("decrypt", TRUE)

NextCipher == CipherKey \/ AesNew \/ AesEncrypt \/ AesDecrypt

\* AES ciphers constructed from any SymmetricKey and any supported
\* variant, under any sequence of encrypt() and decrypt() calls.
SpecCipher == InitKey /\ [][NextCipher]_vars

---------------------------------------------------------------------------
\* EncryptedTransporter
\*
\* The fields hold 0 for null.  The signature and the algorithm identifier
\* are functions of the constructor's arguments alone, the same for every
\* invocation, and are written 1; the transporter field holds the number of
\* the begin() invocation whose `new Transporter(...)` created the object.
\* Handlers run one at a time: an invocation of begin() gives way to other
\* handlers at its three awaits only.

Invocations == 1..MaxBegins

\* The rejection of cryptx-sdk's hmac() and hash().
HASH_FAILED == "cryptx-sdk/hash rejected"

\* The _hmacKey argument: not passed, the empty string, a non-empty key.
HmacKeys == {"absent", "empty", "given"}

\* The byte lengths of the _password argument: around the multiples of 16,
\* where key, IV and authentication tag begin and end.
PasswordLens == {n \in SecretLens : n % 16 \in {0, 15}}

\* `this.#props.hmacKey ? ... : ...`: undefined and '' are falsy.
Truthy(h) == h = "given"

\* What the envelope's handlers leave alone.
otherVars == <<queueVars, streamVars, ctorVars, sendVars, loopVars, zipVars, pipeVars, snapVars, codecVars, nextByte, destroyed,
              argBuf, ret>>

EnvCall(o, n, e) ==
  /\ op' = o
  /\ argN' = n
  /\ err' = e

Settle(i, at, e) ==
  /\ pc' = [pc EXCEPT ![i] = at]
  /\ rejection' = [rejection EXCEPT ![i] = e]

\* The envelope's key with a keyLength of 32 for every algorithm.
EnvelopeKey_Always32 ==
  NewSymmetricKey(password, 32, Options(<<algorithm>>, <<>>, <<>>, TRUE))

\* new SymmetricKey(password, algorithm.includes('128') ? 16 : 32,
\*                  { algorithm, usages: ['encrypt', 'decrypt'] })
EnvelopeKey ==
  NewSymmetricKey(password, IF Includes128(algorithm) THEN 16 ELSE 32,
                  Options(<<algorithm>>, <<>>, <<>>, TRUE))

\* The signing key of begin() taken from sk.last(14) in every case.
SigningKey_AlwaysLast(k) ==
  LET l == Last(k, 14) IN
  IF l.err # NONE THEN l ELSE Returned(<<"last">> \o l.value)

\* hmacKey ? Buffer.from(hmacKey) : sk.last(14)
SigningKey(k) ==
  IF Truthy(hmacKey) THEN Returned(<<"hmacKey">>)
  ELSE LET l == Last(k, 14) IN
       IF l.err # NONE THEN l ELSE Returned(<<"last">> \o l.value)

\* begin() without `if(this.#ready) throw ...`.
BeginEnterOn_NoReadyCheck(i) ==
  LET k == EnvelopeKey
      h == IF k.err = NONE THEN SigningKey(k.value) ELSE k
  IN
  IF h.err # NONE
  THEN /\ Settle(i, "rejected", h.err)
       /\ EnvCall("begin", i, h.err)
       /\ UNCHANGED <<fieldVars, sk, hk>>
  ELSE /\ sk' = k.value
       /\ hk' = h.value
       /\ Settle(i, IF originalPayload = 0 THEN "hashThrown" ELSE "hash", NONE)
       /\ EnvCall("begin", i, NONE)
       /\ UNCHANGED fieldVars

\* begin(), from the call to `await hashObject(...)`: the guard, the key,
\* the signing key, and the call of hashObject, whose Buffer.from(object)
\* throws a TypeError when the payload is null.
BeginEnterOn(i) ==
  LET k == EnvelopeKey
      h == IF k.err = NONE THEN SigningKey(k.value) ELSE k
  IN
  IF ready
  THEN /\ Settle(i, "rejected", UNSUPPORTED)
       /\ EnvCall("begin", i, UNSUPPORTED)
       /\ UNCHANGED <<fieldVars, sk, hk>>
  ELSE IF h.err # NONE
  THEN /\ Settle(i, "rejected", h.err)
       /\ EnvCall("begin", i, h.err)
       /\ UNCHANGED <<fieldVars, sk, hk>>
  ELSE /\ sk' = k.value
       /\ hk' = h.value
       /\ Settle(i, IF originalPayload = 0 THEN "hashThrown" ELSE "hash", NONE)
       /\ EnvCall("begin", i, NONE)
       /\ UNCHANGED fieldVars

BeginEnter ==
  /\ \E i \in Invocations :
       /\ pc[i] = "idle"
       /\ \A j \in 1..(i - 1) : pc[j] # "idle"
       /\ BeginEnterOn(i)
  /\ UNCHANGED <<got, otherVars, propsVars, aes, out>>

\* new AES(sk, { variant }), aes.update(payload), aes.encrypt()
Encrypted(k, accepted) ==
  LET a == NewAES(k, algorithm) IN
  IF a.err # NONE THEN Ciphered(a.err, <<>>, FALSE)
  ELSE IF originalPayload = 0 THEN Ciphered(INVALID_TYPE, <<>>, FALSE)
  ELSE Cipher(a.value, k, FALSE, accepted)

\* The first stretch after the await setting #ready with the signature.
BeginAfterHashOn_ReadyEarly(i, hashed, accepted) ==
  IF pc[i] = "hashThrown"
  THEN /\ Settle(i, "rejected", TYPE_ERROR)
       /\ EnvCall("begin:hash", i, TYPE_ERROR)
       /\ UNCHANGED <<fieldVars, aes, out>>
  ELSE IF ~hashed
  THEN /\ Settle(i, "rejected", HASH_FAILED)
       /\ EnvCall("begin:hash", i, HASH_FAILED)
       /\ UNCHANGED <<fieldVars, aes, out>>
  ELSE LET c == Encrypted(sk, accepted) IN
       /\ signature' = 1
       /\ ready' = TRUE
       /\ aes' = IF NewAES(sk, algorithm).err # NONE THEN aes
                 ELSE [variant |-> algorithm, finish |-> c.finish]
       /\ out' = IF c.err # NONE THEN out ELSE c.value
       /\ Settle(i, IF c.err # NONE THEN "rejected" ELSE "encrypt", c.err)
       /\ EnvCall("begin:hash", i, c.err)
       /\ UNCHANGED <<originalPayload, transporter, algorithmIdentifier>>

\* begin(), from the first await to `await aes.encrypt()`: hashObject's
\* promise settles (`hashed`: hmac() resolved), the signature is stored,
\* the cipher is built, fed the payload as it is now (aes.update(null)
\* throws ERR_INVALID_TYPE) and run (`accepted`: the primitive's verdict).
BeginAfterHashOn(i, hashed, accepted) ==
  IF pc[i] = "hashThrown"
  THEN /\ Settle(i, "rejected", TYPE_ERROR)
       /\ EnvCall("begin:hash", i, TYPE_ERROR)
       /\ UNCHANGED <<fieldVars, aes, out>>
  ELSE IF ~hashed
  THEN /\ Settle(i, "rejected", HASH_FAILED)
       /\ EnvCall("begin:hash", i, HASH_FAILED)
       /\ UNCHANGED <<fieldVars, aes, out>>
  ELSE LET c == Encrypted(sk, accepted) IN
       /\ signature' = 1
       /\ aes' = IF NewAES(sk, algorithm).err # NONE THEN aes
                 ELSE [variant |-> algorithm, finish |-> c.finish]
       /\ out' = IF c.err # NONE THEN out ELSE c.value
       /\ Settle(i, IF c.err # NONE THEN "rejected" ELSE "encrypt", c.err)
       /\ EnvCall("begin:hash", i, c.err)
       /\ UNCHANGED <<originalPayload, ready, transporter, algorithmIdentifier>>

BeginAfterHash ==
  /\ \E i \in Invocations, hashed \in BOOLEAN, accepted \in BOOLEAN :
       /\ pc[i] \in {"hash", "hashThrown"}
       /\ BeginAfterHashOn(i, hashed, accepted)
  /\ UNCHANGED <<got, otherVars, propsVars, sk, hk>>

\* The second stretch without `this.#props.originalPayload = null!`.
BeginAfterEncryptOn_KeepPayload(i) ==
  /\ transporter' = i
  /\ Settle(i, "sha", NONE)
  /\ EnvCall("begin:encrypt", i, NONE)
  /\ UNCHANGED <<originalPayload, ready, signature, algorithmIdentifier>>

\* begin(), from the second await to `await sha512(...)`: the Transporter
\* over the ciphertext is created and stored, the payload is released.
BeginAfterEncryptOn(i) ==
  /\ transporter' = i
  /\ originalPayload' = 0
  /\ Settle(i, "sha", NONE)
  /\ EnvCall("begin:encrypt", i, NONE)
  /\ UNCHANGED <<ready, signature, algorithmIdentifier>>

BeginAfterEncrypt ==
  /\ \E i \in Invocations :
       /\ pc[i] = "encrypt"
       /\ BeginAfterEncryptOn(i)
  /\ UNCHANGED <<got, otherVars, propsVars, hk, cryptoVars>>

\* The last stretch without `this.#algorithmIdentifier = ...`.
BeginAfterShaOn_NoIdentifier(i, hashed) ==
  IF ~hashed
  THEN /\ Settle(i, "rejected", HASH_FAILED)
       /\ EnvCall("begin:sha", i, HASH_FAILED)
       /\ UNCHANGED fieldVars
  ELSE /\ ready' = TRUE
       /\ Settle(i, "resolved", NONE)
       /\ EnvCall("begin:sha", i, NONE)
       /\ UNCHANGED <<originalPayload, signature, transporter, algorithmIdentifier>>

\* begin(), from the third await to its return; `hashed`: hash() resolved.
BeginAfterShaOn(i, hashed) ==
  IF ~hashed
  THEN /\ Settle(i, "rejected", HASH_FAILED)
       /\ EnvCall("begin:sha", i, HASH_FAILED)
       /\ UNCHANGED fieldVars
  ELSE /\ algorithmIdentifier' = 1
       /\ ready' = TRUE
       /\ Settle(i, "resolved", NONE)
       /\ EnvCall("begin:sha", i, NONE)
       /\ UNCHANGED <<originalPayload, signature, transporter>>

BeginAfterSha ==
  /\ \E i \in Invocations, hashed \in BOOLEAN :
       /\ pc[i] = "sha"
       /\ BeginAfterShaOn(i, hashed)
  /\ UNCHANGED <<got, otherVars, propsVars, hk, cryptoVars>>

\* An accessor testing its field only, not #ready.
AccessorOn_NoReadyCheck(name, field) ==
  /\ EnvCall(name, 0, IF field = 0 THEN UNSUPPORTED ELSE NONE)
  /\ got' = field
  /\ UNCHANGED <<fieldVars, pc, rejection, otherVars, propsVars, hk, cryptoVars>>

\* get algorithm / get transporter / get signature
AccessorOn(name, field) ==
  /\ EnvCall(name, 0, IF ~ready \/ field = 0 THEN UNSUPPORTED ELSE NONE)
  /\ got' = IF ~ready \/ field = 0 THEN 0 ELSE field
  /\ UNCHANGED <<fieldVars, pc, rejection, otherVars, propsVars, hk, cryptoVars>>

GetAlgorithm == AccessorOn("algorithm", algorithmIdentifier)

GetTransporter == AccessorOn("transporter", transporter)

GetSignature == AccessorOn("signature", signature)

Accessors == {"algorithm", "transporter", "signature"}

\* new EncryptedTransporter(_payload, _password, _hmacKey, _algorithm)
InitEnvelope ==
  /\ value = <<>>
  /\ parsed = <<>>
  /\ subs = <<>>
  /\ compressed = FALSE
  /\ loopOffset = 0
  /\ ctor = "done"
  /\ promise = "idle"
  /\ chunksCount = 0
  /\ res = [head |-> FALSE, written |-> <<>>, ended |-> FALSE]
  /\ w = [writing |-> FALSE, buffered |-> <<>>, ending |-> FALSE]
  /\ piped = 0
  /\ kind = "EncryptedTransporter"
  /\ originalPayload = 1
  /\ ready = FALSE
  /\ signature = 0
  /\ transporter = 0
  /\ algorithmIdentifier = 0
  /\ pc = [i \in Invocations |-> "idle"]
  /\ rejection = [i \in Invocations |-> NONE]
  /\ got = 0
  /\ algorithm \in Variants
  /\ password \in PasswordLens
  /\ hmacKey \in HmacKeys
  /\ hk = <<>>
  /\ sk = <<>>
  /\ aes = <<>>
  /\ out = <<>>
  /\ op = "constructor"
  /\ argN = 0
  /\ err = NONE
  /\ chunks = <<>>
  /\ length = 0
  /\ finish = FALSE
  /\ disposed = FALSE
  /\ nextByte = 0
  /\ payload = <<>>
  /\ maxLength = 0
  /\ streamChunks = <<>>
  /\ chunksNull = TRUE
  /\ currentChunkIndex = 0
  /\ destroyed = FALSE
  /\ pushed = <<>>
  /\ pushRets = <<>>
  /\ eos = 0
  /\ argBuf = <<>>
  /\ ret = <<>>
  /\ snap = <<>>
  /\ snapLive = FALSE

NextEnvelope ==
  \/ BeginEnter \/ BeginAfterHash \/ BeginAfterEncrypt \/ BeginAfterSha
  \/ GetAlgorithm \/ GetTransporter \/ GetSignature

\* An EncryptedTransporter under any interleaving of begin() invocations,
\* resumed at their awaits in any order, and accessor reads.
SpecEnvelope == InitEnvelope /\ [][NextEnvelope]_vars

---------------------------------------------------------------------------
\* Properties of the Transporter's chunks and stream.

\* cs splits P into slices of width M.
IsSplitOf(cs, P, M) ==
  /\ Concat(cs) = P
  /\ \A i \in 1..Len(cs) : Len(cs[i]) <= M
  /\ SumLen(cs) = Len(P)
  /\ Len(P) <= M => Len(cs) = 1
  /\ Len(P) > M => \A i \in 1..(Len(cs) - 1) : Len(cs[i]) = M

\* C1: the chunks a Transporter is constructed with (the queue right after
\* construction, and the copy the stream reads from) concatenate to the
\* payload, are each at most maxLength long, sum to the payload's length,
\* are a single chunk when the payload fits in one, and otherwise all have
\* length maxLength except possibly the last.
C1_ChunksSplitPayload ==
  /\ op = "constructor" =>
       /\ IsSplitOf(chunks, payload, maxLength)
       /\ length = Len(payload)
       /\ streamChunks = chunks
  /\ ~chunksNull => IsSplitOf(streamChunks, payload, maxLength)

\* C1 witness: a payload split into several chunks, the last one shorter.
C1_Witness ==
  /\ op = "constructor"
  /\ Len(chunks) >= 2
  /\ Len(chunks[Len(chunks)]) < maxLength
  /\ Len(chunks[1]) = maxLength

\* C2: whatever the interleaving of pull requests, buffer-full answers and
\* drain events, the chunks handed to push are exactly the first
\* currentChunkIndex chunks of the split, in split order: none twice, none
\* skipped.
C2_PushedInSplitOrder ==
  /\ currentChunkIndex <= Len(Split(payload, maxLength))
  /\ pushed = SubSeq(Split(payload, maxLength), 1, currentChunkIndex)

\* C2 witness: after a buffer-full answer, the drain listener has resumed
\* pushing on a live stream.
C2_Witness ==
  /\ op = "drain"
  /\ ~destroyed
  /\ Len(pushed) >= 3
  /\ pushRets[1] = FALSE
  /\ pushRets[2] = FALSE

\* C3: within one step, a push answered "buffer full" is the last push of
\* that step and is not followed by push(null); and only a pull request or
\* a drain event pushes anything.
C3_NoPushAfterFull ==
  [][ /\ \A i \in (Len(pushRets) + 1)..(Len(pushRets') - 1) : pushRets'[i] = TRUE
      /\ (Len(pushRets') > Len(pushRets) /\ pushRets'[Len(pushRets')] = FALSE)
           => eos' = eos
      /\ op' \notin {"_read", "drain"} => (pushed' = pushed /\ eos' = eos)
    ]_vars

\* C3 witness: a push was answered "buffer full" while chunks remained, and
\* pushing went on only with a later pull request.
C3_Witness ==
  /\ op = "_read"
  /\ Len(pushRets) >= 2
  /\ pushRets[1] = FALSE

\* C4: push(null) is called at most once, and when it has been called every
\* chunk of the split has been pushed, in order and nothing more, so the
\* bytes pushed are as many as the payload has.
C4_EndOfStreamOnce ==
  /\ eos <= 1
  /\ eos = 1 =>
       /\ chunksNull
       /\ pushed = Split(payload, maxLength)
       /\ SumLen(pushed) = Len(payload)

\* C4 witness: end-of-stream has been signalled after several chunks, and a
\* drain event has arrived since.
C4_Witness ==
  /\ eos = 1
  /\ op = "drain"
  /\ Len(pushed) >= 2
  /\ \E i \in 1..Len(pushRets) : pushRets[i] = FALSE

\* C5: with a consumer that keeps pulling, a stream that is not destroyed
\* eventually has pushed every chunk and signalled end-of-stream.
C5_EventuallyDelivered ==
  <>(destroyed \/ (eos = 1 /\ pushed = Split(payload, maxLength)))

\* C5 witness: a live stream that paused on "buffer full" and still came to
\* its end.
C5_Witness ==
  /\ ~destroyed
  /\ eos = 1
  /\ Len(pushed) >= 2
  /\ pushRets[1] = FALSE

\* C6: byteSize is the length of the payload the Transporter was
\* constructed from, in every state.
C6_ByteSizeIsPayloadLength == byteSize = Len(payload)

\* C7: end() returns normally in every state, and a later end() changes
\* nothing.
C7_TerminateNeverThrows ==
  [][op' = "end" =>
       /\ err' = NONE
       /\ destroyed => UNCHANGED <<queueVars, streamVars, destroyed>>]_vars

---------------------------------------------------------------------------
\* Properties of the ChunkStream.

\* C8: this[$length] is the sum of the lengths of the chunks held.
C8_LengthIsSumOfChunks == length = SumLen(chunks)

\* C9: acceptChunk on a finished queue throws ERR_STREAM_BUFFER_OVERFLOW and
\* leaves chunks and length as they were; on a queue not finished it puts
\* the buffer at the tail and adds its length to the total.
C9_AppendAfterFinalize ==
  [][op' = "acceptChunk" =>
       IF finish
       THEN err' = OVERFLOW /\ chunks' = chunks /\ length' = length
       ELSE /\ err' = NONE
            /\ chunks' = Append(chunks, argBuf')
            /\ length' = length + Len(argBuf')]_vars

\* C9 witness: a non-empty buffer was refused by a finished queue that
\* holds chunks.
C9_Witness ==
  /\ op = "acceptChunk"
  /\ err = OVERFLOW
  /\ argBuf # <<>>
  /\ chunks # <<>>
  /\ ~disposed

---------------------------------------------------------------------------
\* Properties of read, peek and chunks on the ChunkStream.

\* C11: read(n) and peek(n) with n greater than the total length fail with
\* ERR_STREAM_BUFFER_UNDERFLOW and leave the queue as it was; with n = 0
\* they return an empty buffer and leave the queue as it was.
C11_UnderflowAndZero ==
  [][op' \in {"read", "peek"} =>
       /\ argN' > length =>
            (err' = UNDERFLOW /\ ret' = <<>> /\ UNCHANGED queueVars)
       /\ argN' = 0 =>
            (err' = NONE /\ ret' = <<>> /\ UNCHANGED queueVars)]_vars

\* A read of more than a non-empty queue holds has been refused.
C11_Witness ==
  /\ op = "read"
  /\ argN > length
  /\ err = UNDERFLOW
  /\ chunks # <<>>
  /\ length > 0

\* C12: peek(n) returns what read(n) would return from the same state,
\* fails as read(n) would fail, and changes neither the contents nor the
\* total length of the queue.
C12_PeekIsReadWithoutRemoval ==
  [][op' = "peek" =>
       /\ UNCHANGED queueVars
       /\ ret' = DoRead(chunks, length, argN', TRUE).ret
       /\ err' = DoRead(chunks, length, argN', TRUE).err]_vars

\* A peek across two chunks has returned their bytes and kept both chunks.
C12_Witness ==
  /\ op = "peek"
  /\ err = NONE
  /\ Len(chunks) >= 2
  /\ Len(ret) > Len(chunks[1])
  /\ Len(chunks[1]) > 0
  /\ length = SumLen(chunks)

\* C13: read(n) with 0 <= n <= total length returns the first n bytes of
\* the concatenation of the chunks held, whatever their boundaries, and
\* leaves a queue whose concatenation is the rest of those bytes and whose
\* total length is n less.
C13_ReadTakesFirstBytes ==
  [][(op' = "read" /\ 0 <= argN' /\ argN' <= length) =>
       /\ err' = NONE
       /\ ret' = SubSeq(Concat(chunks), 1, argN')
       /\ Concat(chunks') = SubSeq(Concat(chunks), argN' + 1, Len(Concat(chunks)))
       /\ length' = length - argN']_vars

\* C14: once the queue is finalized, no operation other than dispose()
\* changes its chunk list or its total length, whatever byte count that is
\* not negative the operation is given.
C14_FinalizedQueueIsFixed ==
  [][(finish /\ op' # "dispose" /\ argN' >= 0) =>
       (chunks' = chunks /\ length' = length)]_vars

\* C15 as stated: chunks() fails on a queue that is not finalized, returns
\* the chunks in queue order on every finalized queue, and no later
\* operation alters an array that was returned.
C15_FinalizedGivesSnapshot ==
  [][/\ (op' = "chunks" /\ ~finish) => err' = UNDERFLOW
     /\ (op' = "chunks" /\ finish) => (err' = NONE /\ SnapNow' = chunks)
     /\ ~(op' = "chunks" /\ err' = NONE) => SnapNow' = SnapNow]_vars

\* C15: chunks() fails with ERR_STREAM_BUFFER_UNDERFLOW on a queue that is
\* not finalized and on a disposed queue; on a queue that is finalized and
\* not disposed it returns the chunks in queue order; no later operation
\* alters an array that was returned.
C15_SnapshotUnlessDisposed ==
  [][/\ (op' = "chunks" /\ (~finish \/ disposed)) =>
          (err' = UNDERFLOW /\ SnapNow' = SnapNow)
     /\ (op' = "chunks" /\ finish /\ ~disposed) =>
          (err' = NONE /\ SnapNow' = chunks)
     /\ ~(op' = "chunks" /\ err' = NONE) => SnapNow' = SnapNow]_vars

\* A read has consumed from a queue of which a snapshot had been returned:
\* the snapshot still holds the chunks the queue no longer has.
C15_Witness ==
  /\ op = "read"
  /\ err = NONE
  /\ ret # <<>>
  /\ finish
  /\ SnapNow # <<>>
  /\ SnapNow # chunks

---------------------------------------------------------------------------
\* Properties of the EncryptedTransporter's begin() and accessors.

\* C16: a begin() invoked when an earlier begin() has completed fails with
\* ERR_UNSUPPORTED_OPERATION and leaves the signature, the algorithm
\* identifier and the transporter as they were.
C16_BeginAfterReadyFails ==
  [][(op' = "begin" /\ ready) =>
       /\ err' = UNSUPPORTED
       /\ pc'[argN'] = "rejected"
       /\ rejection'[argN'] = UNSUPPORTED
       /\ UNCHANGED fieldVars]_vars

\* A begin() issued after another one resolved has been rejected.
C16_Witness ==
  /\ op = "begin"
  /\ err = UNSUPPORTED
  /\ ready
  /\ \E j \in Invocations : j # argN /\ pc[j] = "resolved"

\* begin() invocations that went as far as creating the transporter.
Chunked == {i \in Invocations : pc[i] \in {"sha", "resolved"}}

\* C17: of two begin() invocations, however interleaved, at most one signs,
\* encrypts and chunks, and once one has resolved the other, when it
\* settles, has failed with ERR_UNSUPPORTED_OPERATION.
C17_BeginsOnce ==
  \A i, j \in Invocations :
    i # j =>
      /\ ~(i \in Chunked /\ j \in Chunked)
      /\ (pc[i] = "resolved" /\ pc[j] \in {"resolved", "rejected"}) =>
           (pc[j] = "rejected" /\ rejection[j] = UNSUPPORTED)

\* C18: before Ready every read of algorithm, signature or transporter
\* fails with ERR_UNSUPPORTED_OPERATION, returns nothing and changes
\* nothing, whatever begin() has computed so far.
C18_AccessorsFailBeforeReady ==
  [][(op' \in Accessors /\ ~ready) =>
       /\ err' = UNSUPPORTED
       /\ got' = 0
       /\ UNCHANGED <<fieldVars, pc, rejection>>]_vars

\* The transporter was read and refused while a begin() that has already
\* stored the signature and the transporter waits at its last await.
C18_Witness ==
  /\ op = "transporter"
  /\ err = UNSUPPORTED
  /\ ~ready
  /\ signature # 0
  /\ transporter # 0
  /\ \E i \in Invocations : pc[i] = "sha"

C20_PayloadReleased ==
  /\ [](ready => originalPayload = 0)
  /\ [](originalPayload = 0 <=> transporter # 0)
  /\ [][originalPayload = 0 => originalPayload' = 0]_vars

\* begin() has resolved: the envelope is Ready and the payload is gone.
C20_Witness ==
  /\ ready
  /\ originalPayload = 0
  /\ \E i \in Invocations : pc[i] = "resolved"

---------------------------------------------------------------------------
\* Properties of the SymmetricKey.

\* C25: constructing a SymmetricKey fails with ERR_INVALID_ARGUMENT exactly
\* when the secret is shorter than keyLength, and fails in no other way;
\* every key constructed has a secret of at least keyLength bytes and a
\* getKey() of exactly keyLength bytes.
C25_KeyLengthChecked ==
  /\ [][op' = "new SymmetricKey" =>
          /\ err' = INVALID_ARGUMENT <=> argBuf'[1] < argBuf'[2]
          /\ err' = NONE <=> argBuf'[1] >= argBuf'[2]
          /\ err' = NONE <=> sk' # <<>>]_vars
  /\ [](sk # <<>> =>
          /\ sk.key >= sk.keyLength
          /\ ByteLength(GetKey(sk)) = sk.keyLength)

\* A secret one byte short of the key length has been refused.
C25_Witness ==
  /\ op = "new SymmetricKey"
  /\ err = INVALID_ARGUMENT
  /\ argBuf[1] = argBuf[2] - 1
  /\ sk = <<>>

\* The views of key k lie within the secret and one after the other.
ViewsApart(k) ==
  LET key == GetKey(k)
      iv  == Iv(k)
      tag == AuthTag(k)
  IN /\ key[2] <= k.key
     /\ iv # <<>> => (key[2] <= iv[1] /\ iv[2] <= k.key)
     /\ tag # <<>> => (key[2] <= tag[1] /\ tag[2] <= k.key)
     /\ (iv # <<>> /\ tag # <<>>) => iv[2] <= tag[1]

\* What getKey(), iv() and authTag() are to return on a secret of L bytes
\* with key length K, IV length iv and tag length tag.
ViewsAsLaidOut(L, K, iv, tag) ==
  /\ op' = "getKey" => out' = <<0, K>>
  /\ op' = "iv" =>
       out' = IF L >= K + iv THEN <<K, K + iv>> ELSE <<>>
  /\ op' = "authTag" =>
       out' = IF L >= K + iv + tag THEN <<K + iv, K + iv + tag>> ELSE <<>>

\* C26 as stated: for every secret length, keyLength, ivLength and
\* authTagLength given, getKey() is [0, K), iv() is [K, K+iv) when the
\* secret has that many bytes and null otherwise, authTag() is
\* [K+iv, K+iv+tag) when the secret has that many bytes and null otherwise;
\* the views do not overlap and stay within the secret.
C26_ViewsForEveryLength ==
  /\ [][(sk # <<>> /\ sk' = sk
          /\ sk.given.ivLength # <<>> /\ sk.given.authTagLength # <<>>) =>
          ViewsAsLaidOut(sk.key, sk.keyLength,
                         sk.given.ivLength[1], sk.given.authTagLength[1])]_vars
  /\ [](sk # <<>> => ViewsApart(sk))

\* C26: the same for every ivLength of at least 1.  (An ivLength of 0
\* counts as not given when the key names an aes or chacha20 algorithm,
\* and iv() and authTag() are null whenever the secret has exactly
\* keyLength bytes.)
C26_ViewsForPositiveIvLength ==
  /\ [][(sk # <<>> /\ sk' = sk
          /\ sk.given.ivLength # <<>> /\ sk.given.authTagLength # <<>>
          /\ sk.given.ivLength[1] >= 1) =>
          ViewsAsLaidOut(sk.key, sk.keyLength,
                         sk.given.ivLength[1], sk.given.authTagLength[1])]_vars
  /\ [](sk # <<>> => ViewsApart(sk))

\* authTag() has returned a view that starts after a key and an IV.
C26_Witness ==
  /\ op = "authTag"
  /\ sk # <<>>
  /\ sk.given.ivLength = <<8>>
  /\ sk.given.authTagLength = <<16>>
  /\ sk.keyLength = 16
  /\ out = <<24, 40>>

\* C27: for a key that names an aes-* algorithm and is given neither
\* ivLength nor authTagLength, iv() is the 16 bytes after the key and
\* authTag() the 16 bytes after those, with the 128-bit and the 256-bit
\* variants alike.
C27_DefaultsAreSixteen ==
  [][(sk # <<>> /\ sk' = sk
      /\ sk.given.algorithm # <<>>
      /\ sk.given.ivLength = <<>> /\ sk.given.authTagLength = <<>>) =>
      (StartsWithAes(sk.given.algorithm[1]) =>
         ViewsAsLaidOut(sk.key, sk.keyLength, 16, 16))]_vars

---------------------------------------------------------------------------
\* serialize / parse
\*
\* A value is a record naming its runtime kind; a number with a fraction
\* other than zero is a float, any other number an integer.  A text is a
\* sequence of characters, a buffer a sequence of bytes.

OUT_OF_RANGE == "ERR_OUT_OF_RANGE"
\* What jsonSafeParser hands back for a text that is not JSON.
PARSE_ERROR == "ParseError"

PrimitiveDataType ==
  [String |-> 15, Integer |-> 16, Float |-> 17, Boolean |-> 18, Null |-> 19,
   Undefined |-> 20, Object |-> 21, Symbol |-> 22, Bigint |-> 23,
   Function |-> 24, Array |-> 25]

primitiveDataTypeValues == {15, 16, 17, 18, 19, 20, 21, 22, 23, 24, 25}

JString(s) == [k |-> "string", s |-> s]
JInteger(n) == [k |-> "integer", n |-> n]
JFloat(neg, int, frac) == [k |-> "float", neg |-> neg, int |-> int, frac |-> frac]
JBoolean(b) == [k |-> "boolean", b |-> b]
JNull == [k |-> "null"]
JArray(items) == [k |-> "array", items |-> items]
JObject(members) == [k |-> "object", members |-> members]

\* __$typeof(x): typeof null is 'object', and null is no array.
TypeOf(x) ==
  CASE x.k = "string"  -> PrimitiveDataType.String
    [] x.k = "integer" -> PrimitiveDataType.Integer
    [] x.k = "float"   -> PrimitiveDataType.Float
    [] x.k = "boolean" -> PrimitiveDataType.Boolean
    [] x.k = "array"   -> PrimitiveDataType.Array
    [] x.k = "object"  -> PrimitiveDataType.Object
    [] x.k = "null"    -> PrimitiveDataType.Object

\* The characters of the texts, and their UTF-8 encodings.
Chars ==
  <<"\"", ",", "-", ".", "0", "1", "2", "3", "4", "5", "6", "7", "8", "9",
    ":", "[", "\\", "]", "a", "e", "f", "k", "l", "n", "r", "s", "t", "u",
    "{", "}">>
Codes ==
  <<34, 44, 45, 46, 48, 49, 50, 51, 52, 53, 54, 55, 56, 57,
    58, 91, 92, 93, 97, 101, 102, 107, 108, 110, 114, 115, 116, 117,
    123, 125>>

\* U+FFFD, which toString() yields for a byte that is no UTF-8.
REPLACEMENT == "?"

\* Buffer.from(text)
Utf8(text) ==
  [i \in 1..Len(text) |->
     Codes[CHOOSE j \in 1..Len(Chars) : Chars[j] = text[i]]]

\* buffer.toString()
FromUtf8(bytes) ==
  [i \in 1..Len(bytes) |->
     IF \E j \in 1..Len(Codes) : Codes[j] = bytes[i]
     THEN Chars[CHOOSE j \in 1..Len(Codes) : Codes[j] = bytes[i]]
     ELSE REPLACEMENT]

Digit == <<"0", "1", "2", "3", "4", "5", "6", "7", "8", "9">>
DigitChars == {Digit[d] : d \in 1..10}
DigitOf(c) == CHOOSE d \in 0..9 : Digit[d + 1] = c

RECURSIVE Digits(_)
\* The decimal digits of n >= 0.
Digits(n) ==
  IF n < 10 THEN <<Digit[n + 1]>>
  ELSE Digits(n \div 10) \o <<Digit[(n % 10) + 1]>>

RECURSIVE Escape(_)
\* The characters of a string as they stand between the quotes.
Escape(str) ==
  IF str = <<>> THEN <<>>
  ELSE (IF Head(str) \in {"\"", "\\"} THEN <<"\\", Head(str)>> ELSE <<Head(str)>>)
       \o Escape(Tail(str))

Quote(str) == <<"\"">> \o Escape(str) \o <<"\"">>

RECURSIVE Stringify(_)
RECURSIVE StringifyItems(_)
RECURSIVE StringifyMembers(_)

\* JSON.stringify(x)
Stringify(x) ==
  CASE x.k = "string"  -> Quote(x.s)
    [] x.k = "integer" -> IF x.n < 0 THEN <<"-">> \o Digits(-x.n) ELSE Digits(x.n)
    [] x.k = "float"   ->
         (IF x.neg THEN <<"-">> ELSE <<>>) \o Digits(x.int) \o <<".">>
           \o [i \in 1..Len(x.frac) |-> Digit[x.frac[i] + 1]]
    [] x.k = "boolean" -> IF x.b THEN <<"t", "r", "u", "e">>
                          ELSE <<"f", "a", "l", "s", "e">>
    [] x.k = "null"    -> <<"n", "u", "l", "l">>
    [] x.k = "array"   -> <<"[">> \o StringifyItems(x.items) \o <<"]">>
    [] x.k = "object"  -> <<"{">> \o StringifyMembers(x.members) \o <<"}">>

StringifyItems(items) ==
  IF items = <<>> THEN <<>>
  ELSE Stringify(Head(items))
       \o (IF Len(items) > 1 THEN <<",">> \o StringifyItems(Tail(items)) ELSE <<>>)

StringifyMembers(members) ==
  IF members = <<>> THEN <<>>
  ELSE Quote(Head(members)[1]) \o <<":">> \o Stringify(Head(members)[2])
       \o (IF Len(members) > 1 THEN <<",">> \o StringifyMembers(Tail(members))
           ELSE <<>>)

\* The character at position i of text t, "" past its end.
At(t, i) == IF i <= Len(t) THEN t[i] ELSE ""

Parsed(v, next) == [ok |-> TRUE, v |-> v, next |-> next]
Unparsed == [ok |-> FALSE, v |-> JNull, next |-> 0]

RECURSIVE ParseDigits(_, _, _)
\* The digits of t from position i on.
ParseDigits(t, i, acc) ==
  IF At(t, i) \in DigitChars
  THEN ParseDigits(t, i + 1, Append(acc, DigitOf(At(t, i))))
  ELSE Parsed(acc, i)

RECURSIVE ToNumber(_)
ToNumber(digits) ==
  IF digits = <<>> THEN 0
  ELSE 10 * ToNumber(SubSeq(digits, 1, Len(digits) - 1)) + digits[Len(digits)]

RECURSIVE StripZeros(_)
StripZeros(digits) ==
  IF digits # <<>> /\ digits[Len(digits)] = 0
  THEN StripZeros(SubSeq(digits, 1, Len(digits) - 1))
  ELSE digits

\* The number denoted by a sign, the integer digits and the fraction digits.
Number(neg, int, frac) ==
  IF StripZeros(frac) = <<>> THEN JInteger(IF neg THEN -ToNumber(int) ELSE ToNumber(int))
  ELSE JFloat(neg, ToNumber(int), StripZeros(frac))

\* A JSON number at position i: -? (0 | [1-9][0-9]*) (. [0-9]+)?
ParseNumber(t, i) ==
  LET neg == At(t, i) = "-"
      int == ParseDigits(t, IF neg THEN i + 1 ELSE i, <<>>)
      frac == ParseDigits(t, int.next + 1, <<>>)
  IN
  IF int.v = <<>> \/ (Len(int.v) > 1 /\ int.v[1] = 0) THEN Unparsed
  ELSE IF At(t, int.next) # "." THEN Parsed(Number(neg, int.v, <<>>), int.next)
  ELSE IF frac.v = <<>> THEN Unparsed
  ELSE Parsed(Number(neg, int.v, frac.v), frac.next)

RECURSIVE ParseChars(_, _, _)
\* The characters of a JSON string whose opening quote precedes position i.
ParseChars(t, i, acc) ==
  LET c == At(t, i) IN
  IF c = "" THEN Unparsed
  ELSE IF c = "\"" THEN Parsed(acc, i + 1)
  ELSE IF c = "\\"
    THEN IF At(t, i + 1) \in {"\"", "\\"}
         THEN ParseChars(t, i + 2, Append(acc, At(t, i + 1)))
         ELSE Unparsed
  ELSE ParseChars(t, i + 1, Append(acc, c))

ParseLiteral(t, i, word, v) ==
  IF i + Len(word) - 1 <= Len(t) /\ SubSeq(t, i, i + Len(word) - 1) = word
  THEN Parsed(v, i + Len(word))
  ELSE Unparsed

\* members with key set to v: a key met again keeps its place.
Put(members, key, v) ==
  IF \E j \in 1..Len(members) : members[j][1] = key
  THEN [j \in 1..Len(members) |->
          IF members[j][1] = key THEN <<key, v>> ELSE members[j]]
  ELSE Append(members, <<key, v>>)

RECURSIVE ParseValue(_, _)
RECURSIVE ParseElements(_, _, _)
RECURSIVE ParseMembers(_, _, _)

\* A JSON value at position i of t.
ParseValue(t, i) ==
  LET c == At(t, i) IN
  IF c = "\""
    THEN LET r == ParseChars(t, i + 1, <<>>) IN
         IF r.ok THEN Parsed(JString(r.v), r.next) ELSE Unparsed
  ELSE IF c = "["
    THEN IF At(t, i + 1) = "]" THEN Parsed(JArray(<<>>), i + 2)
         ELSE ParseElements(t, i + 1, <<>>)
  ELSE IF c = "{"
    THEN IF At(t, i + 1) = "}" THEN Parsed(JObject(<<>>), i + 2)
         ELSE ParseMembers(t, i + 1, <<>>)
  ELSE IF c = "t" THEN ParseLiteral(t, i, <<"t", "r", "u", "e">>, JBoolean(TRUE))
  ELSE IF c = "f" THEN ParseLiteral(t, i, <<"f", "a", "l", "s", "e">>, JBoolean(FALSE))
  ELSE IF c = "n" THEN ParseLiteral(t, i, <<"n", "u", "l", "l">>, JNull)
  ELSE IF c = "-" \/ c \in DigitChars THEN ParseNumber(t, i)
  ELSE Unparsed

ParseElements(t, i, acc) ==
  LET r == ParseValue(t, i) IN
  IF ~r.ok THEN Unparsed
  ELSE IF At(t, r.next) = "," THEN ParseElements(t, r.next + 1, Append(acc, r.v))
  ELSE IF At(t, r.next) = "]" THEN Parsed(JArray(Append(acc, r.v)), r.next + 1)
  ELSE Unparsed

ParseMembers(t, i, acc) ==
  LET key == ParseChars(t, i + 1, <<>>)
      r == ParseValue(t, key.next + 1)
  IN
  IF At(t, i) # "\"" \/ ~key.ok \/ At(t, key.next) # ":" THEN Unparsed
  ELSE IF ~r.ok THEN Unparsed
  ELSE IF At(t, r.next) = "," THEN ParseMembers(t, r.next + 1, Put(acc, key.v, r.v))
  ELSE IF At(t, r.next) = "}" THEN Parsed(JObject(Put(acc, key.v, r.v)), r.next + 1)
  ELSE Unparsed

\* jsonSafeStringify(input): the JSON text of a value that has one.
jsonSafeStringify(input) == Returned(Stringify(input))

\* jsonSafeParser(text): the value of a JSON text, an error for any other.
jsonSafeParser(text) ==
  LET r == ParseValue(text, 1) IN
  IF r.ok /\ r.next = Len(text) + 1 THEN Returned(r.v) ELSE Thrown(PARSE_ERROR)

\* serialize without the reserved byte.
SerializeOn_NoReserved(input) ==
  LET s == jsonSafeStringify(input) IN
  IF s.err # NONE THEN s
  ELSE Returned(<<TypeOf(input)>> \o Utf8(s.value))

\* serialize(input)
SerializeOn(input) ==
  LET s == jsonSafeStringify(input) IN
  IF s.err # NONE THEN s
  ELSE Returned(<<TypeOf(input), 0>> \o Utf8(s.value))

\* parse testing the tag before the length.
ParseOn_TagFirst(input) ==
  IF input # <<>> /\ input[1] \notin primitiveDataTypeValues THEN Thrown(INVALID_ARGUMENT)
  ELSE IF Len(input) < 3 THEN Thrown(OUT_OF_RANGE)
  ELSE IF input[2] # 0 THEN Thrown(INVALID_ARGUMENT)
  ELSE LET r == jsonSafeParser(FromUtf8(SubSeq(input, 3, Len(input)))) IN
       IF r.err # NONE THEN r ELSE Returned(<<input[1], r.value>>)

\* parse(input)
ParseOn(input) ==
  IF Len(input) < 3 THEN Thrown(OUT_OF_RANGE)
  ELSE IF input[1] \notin primitiveDataTypeValues THEN Thrown(INVALID_ARGUMENT)
  ELSE IF input[2] # 0 THEN Thrown(INVALID_ARGUMENT)
  ELSE LET r == jsonSafeParser(FromUtf8(SubSeq(input, 3, Len(input)))) IN
       IF r.err # NONE THEN r ELSE Returned(<<input[1], r.value>>)

\* The sequences over S of at most n elements.
SeqsUpTo(S, n) == UNION {[1..m -> S] : m \in 0..n}

\* The values serialize is called with.
Strings == {JString(s) : s \in SeqsUpTo({"a", "\"", "\\"}, MaxStringLen)}
Integers == {JInteger(n) : n \in -MaxInteger..MaxInteger}
Floats ==
  {JFloat(neg, int, frac) :
     neg \in BOOLEAN, int \in {0, 4, 10}, frac \in {<<2>>, <<5>>, <<0, 5>>, <<2, 5>>}}
Booleans == {JBoolean(b) : b \in BOOLEAN}
Items ==
  {JString(<<"\"">>), JInteger(-2), JFloat(FALSE, 4, <<2>>), JBoolean(TRUE), JNull,
   JArray(<<JInteger(1), JInteger(2)>>), JObject(<< <<(<<"k">>), JInteger(1)>> >>)}
Keys == {<<"k">>, <<"a", "\"">>}
Arrays == {JArray(items) : items \in SeqsUpTo(Items, MaxItems)}
Objects ==
  {JObject(members) :
     members \in {m \in SeqsUpTo(Keys \X Items, MaxItems) :
                    \A i, j \in 1..Len(m) : i # j => m[i][1] # m[j][1]}}
Values == Strings \cup Integers \cup Floats \cup Booleans \cup {JNull}
            \cup Arrays \cup Objects

\* The buffers parse is called with, besides those serialize returned:
\* a first byte around the range of the tags, a second byte zero or not,
\* and texts that are JSON and texts that are not.
TagBytes == {0, 14, 15, 21, 25, 26}
ReservedBytes == {0, 1}
Texts ==
  {<<>>, <<49>>, <<48, 49>>, <<91>>, <<91, 93>>, <<34, 97>>, <<34, 92, 97, 34>>,
   <<123, 34, 107, 34, 58, 49, 44, 34, 107, 34, 58, 50, 125>>, <<255>>,
   <<49, 46, 48>>, <<116, 114, 117, 101>>}
Buffers ==
  {<<>>} \cup {<<t>> : t \in TagBytes}
    \cup {<<t, r>> \o x : t \in TagBytes, r \in ReservedBytes, x \in Texts}

\* What serialize and parse leave alone.
codecFrame == <<queueVars, streamVars, ctorVars, sendVars, loopVars, zipVars, pipeVars, snapVars, envVars, cryptoVars,
                nextByte, destroyed, argN>>

\* serialize(input) of the value at hand
Serialize ==
  /\ value # <<>>
  /\ LET r == SerializeOn(value[1]) IN
       /\ op' = "serialize"
       /\ argBuf' = <<>>
       /\ err' = r.err
       /\ ret' = r.value
  /\ UNCHANGED <<value, parsed, codecFrame>>

\* The buffers at hand: what serialize returned, or buffers from elsewhere.
ParseInputs == IF value = <<>> THEN Buffers ELSE IF ret = <<>> THEN {} ELSE {ret}

\* parse(input)
Parse ==
  /\ \E input \in ParseInputs :
       LET r == ParseOn(input) IN
       /\ op' = "parse"
       /\ argBuf' = input
       /\ err' = r.err
       /\ parsed' = r.value
  /\ UNCHANGED <<value, ret, codecFrame>>

InitSerializer ==
  /\ subs = <<>>
  /\ compressed = FALSE
  /\ loopOffset = 0
  /\ ctor = "done"
  /\ promise = "idle"
  /\ chunksCount = 0
  /\ res = [head |-> FALSE, written |-> <<>>, ended |-> FALSE]
  /\ w = [writing |-> FALSE, buffered |-> <<>>, ending |-> FALSE]
  /\ piped = 0
  /\ kind = "serializer"
  /\ value \in {<<>>} \cup {<<v>> : v \in Values}
  /\ parsed = <<>>
  /\ sk = <<>>
  /\ aes = <<>>
  /\ out = <<>>
  /\ op = "none"
  /\ argN = 0
  /\ argBuf = <<>>
  /\ err = NONE
  /\ ret = <<>>
  /\ chunks = <<>>
  /\ length = 0
  /\ finish = FALSE
  /\ disposed = FALSE
  /\ nextByte = 0
  /\ payload = <<>>
  /\ maxLength = 0
  /\ streamChunks = <<>>
  /\ chunksNull = TRUE
  /\ currentChunkIndex = 0
  /\ destroyed = FALSE
  /\ pushed = <<>>
  /\ pushRets = <<>>
  /\ eos = 0
  /\ snap = <<>>
  /\ snapLive = FALSE
  /\ originalPayload = 0
  /\ ready = FALSE
  /\ signature = 0
  /\ transporter = 0
  /\ algorithmIdentifier = 0
  /\ pc = <<>>
  /\ rejection = <<>>
  /\ got = 0
  /\ algorithm = ""
  /\ password = 0
  /\ hmacKey = "absent"
  /\ hk = <<>>

NextSerializer == Serialize \/ Parse

\* serialize called with any value and parse with what it returned, and
\* parse called with buffers that serialize did not make.
SpecSerializer == InitSerializer /\ [][NextSerializer]_vars


---------------------------------------------------------------------------
\* compress, decompress, isCompressedBuffer

\* enum COMPRESSION_ALGORITHM
COMPRESSION_ALGORITHM == [PLAIN |-> 10, GZIP |-> 15, DEFLATE |-> 16]

INVALID_COMPRESSION_ALGORITHM == "ERR_INVALID_COMPRESSION_ALGORITHM"
\* zlib: the input ended before the stream did.
Z_BUF_ERROR  == "Z_BUF_ERROR"
\* zlib: a header, a block or a check value is wrong.
Z_DATA_ERROR == "Z_DATA_ERROR"

RECURSIVE Xor(_, _)
\* a ^ b
Xor(a, b) ==
  IF a = 0 THEN b
  ELSE IF b = 0 THEN a
  ELSE ((a + b) % 2) + 2 * Xor(a \div 2, b \div 2)

\* n as k bytes, least significant first.
RECURSIVE LittleEndian(_, _)
LittleEndian(n, k) ==
  IF k = 0 THEN <<>> ELSE <<n % 256>> \o LittleEndian(n \div 256, k - 1)

\* The number little-endian bytes stand for.
RECURSIVE FromLittleEndian(_)
FromLittleEndian(b) ==
  IF b = <<>> THEN 0 ELSE Head(b) + (256 * FromLittleEndian(Tail(b)))

\* The sums <<a, b>> of Adler-32 after the bytes of p, from <<1, 0>>.
RECURSIVE AdlerSums(_, _)
AdlerSums(p, ab) ==
  IF p = <<>> THEN ab
  ELSE LET a == (ab[1] + Head(p)) % 65521 IN
       AdlerSums(Tail(p), <<a, (ab[2] + a) % 65521>>)

\* The Adler-32 of p, as the four bytes that close a zlib stream.
Adler32(p) ==
  LET ab == AdlerSums(p, <<1, 0>>) IN
  <<ab[2] \div 256, ab[2] % 256, ab[1] \div 256, ab[1] % 256>>

\* One bit of CRC-32 on the register <<high half, low half>>.
CrcShift(c) ==
  LET hi == c[1] \div 2
      lo == (c[2] \div 2) + ((c[1] % 2) * 32768)
  IN IF c[2] % 2 = 1 THEN <<Xor(hi, 60856), Xor(lo, 33568)>> ELSE <<hi, lo>>

RECURSIVE CrcShifts(_, _)
CrcShifts(c, n) == IF n = 0 THEN c ELSE CrcShifts(CrcShift(c), n - 1)

RECURSIVE CrcBytes(_, _)
CrcBytes(p, c) ==
  IF p = <<>> THEN c
  ELSE CrcBytes(Tail(p), CrcShifts(<<c[1], Xor(c[2], Head(p))>>, 8))

\* The CRC-32 of p, as the four bytes of a gzip trailer.
Crc32(p) ==
  LET c == CrcBytes(p, <<65535, 65535>>) IN
  LittleEndian(Xor(c[2], 65535), 2) \o LittleEndian(Xor(c[1], 65535), 2)

\* A final stored block of DEFLATE holding p.
Stored(p) ==
  <<1>> \o LittleEndian(Len(p), 2) \o LittleEndian(65535 - Len(p), 2) \o p

\* The block at the head of x and what follows it; only stored blocks are
\* read, which is what deflate and gzip write here.
Unstored(x) ==
  IF Len(x) < 1 THEN Thrown(Z_BUF_ERROR)
  ELSE IF x[1] # 1 THEN Thrown(Z_DATA_ERROR)
  ELSE IF Len(x) < 5 THEN Thrown(Z_BUF_ERROR)
  ELSE LET n == FromLittleEndian(SubSeq(x, 2, 3)) IN
       IF FromLittleEndian(SubSeq(x, 4, 5)) # 65535 - n THEN Thrown(Z_DATA_ERROR)
       ELSE IF Len(x) < 5 + n THEN Thrown(Z_BUF_ERROR)
       ELSE Returned(<<SubSeq(x, 6, 5 + n), SubSeq(x, 6 + n, Len(x))>>)

\* zlib.deflate(payload): header, block, Adler-32.
deflate(p) == <<120, 1>> \o Stored(p) \o Adler32(p)

\* zlib.inflate(buffer)
inflate(b) ==
  IF Len(b) < 2 THEN Thrown(Z_BUF_ERROR)
  ELSE IF b[1] # 120 \/ ((b[1] * 256) + b[2]) % 31 # 0 THEN Thrown(Z_DATA_ERROR)
  ELSE LET u == Unstored(SubSeq(b, 3, Len(b))) IN
       IF u.err # NONE THEN u
       ELSE IF Len(u.value[2]) < 4 THEN Thrown(Z_BUF_ERROR)
       ELSE IF SubSeq(u.value[2], 1, 4) # Adler32(u.value[1]) THEN Thrown(Z_DATA_ERROR)
       ELSE Returned(u.value[1])

\* The ten bytes that open a gzip member.
GzipHeader == <<31, 139, 8, 0, 0, 0, 0, 0, 0, 3>>

\* zlib.gzip(payload): header, block, CRC-32, length.
gzip(p) == GzipHeader \o Stored(p) \o Crc32(p) \o LittleEndian(Len(p), 4)

\* zlib.gunzip(buffer)
gunzip(b) ==
  IF Len(b) < 2 THEN Thrown(Z_BUF_ERROR)
  ELSE IF SubSeq(b, 1, 2) # SubSeq(GzipHeader, 1, 2) THEN Thrown(Z_DATA_ERROR)
  ELSE IF Len(b) < 10 THEN Thrown(Z_BUF_ERROR)
  ELSE IF b[3] # 8 \/ b[4] # 0 THEN Thrown(Z_DATA_ERROR)
  ELSE LET u == Unstored(SubSeq(b, 11, Len(b))) IN
       IF u.err # NONE THEN u
       ELSE IF Len(u.value[2]) < 8 THEN Thrown(Z_BUF_ERROR)
       ELSE IF SubSeq(u.value[2], 1, 4) # Crc32(u.value[1]) THEN Thrown(Z_DATA_ERROR)
       ELSE IF SubSeq(u.value[2], 5, 8) # LittleEndian(Len(u.value[1]), 4) THEN Thrown(Z_DATA_ERROR)
       ELSE Returned(u.value[1])

\* The names compress takes for an algorithm, and one that is none.
AlgorithmNames == {"plain", "gzip", "deflate", "zip"}

\* algorithm.toUpperCase()
ToUpperCase(name) ==
  CASE name = "plain" -> "PLAIN"
    [] name = "gzip" -> "GZIP"
    [] name = "deflate" -> "DEFLATE"
    [] OTHER -> "ZIP"

\* COMPRESSION_ALGORITHM[algorithm.toUpperCase()]; 0: undefined.
FromName(name) ==
  IF ToUpperCase(name) \in DOMAIN COMPRESSION_ALGORITHM
  THEN COMPRESSION_ALGORITHM[ToUpperCase(name)] ELSE 0

\* The numbers compress is called with for an algorithm.
AlgorithmNumbers == {0, 10, 15, 16}

\* compress writing the payload with no tag before it.
CompressOn_NoTag(_algorithm, _payload) ==
  CASE _algorithm = COMPRESSION_ALGORITHM.PLAIN -> Returned(_payload)
    [] _algorithm = COMPRESSION_ALGORITHM.DEFLATE -> Returned(deflate(_payload))
    [] _algorithm = COMPRESSION_ALGORITHM.GZIP -> Returned(gzip(_payload))
    [] OTHER -> Thrown(INVALID_COMPRESSION_ALGORITHM)

\* compress(algorithm, payload), the algorithm as a number
CompressOn(_algorithm, _payload) ==
  CASE _algorithm = COMPRESSION_ALGORITHM.PLAIN ->
         Returned(<<COMPRESSION_ALGORITHM.PLAIN>> \o _payload)
    [] _algorithm = COMPRESSION_ALGORITHM.DEFLATE ->
         Returned(<<COMPRESSION_ALGORITHM.DEFLATE>> \o deflate(_payload))
    [] _algorithm = COMPRESSION_ALGORITHM.GZIP ->
         Returned(<<COMPRESSION_ALGORITHM.GZIP>> \o gzip(_payload))
    [] OTHER -> Thrown(INVALID_COMPRESSION_ALGORITHM)

\* decompress(payload); readUint8(0) of an empty buffer is out of range.
DecompressOn(_payload) ==
  IF _payload = <<>> THEN Thrown(OUT_OF_RANGE)
  ELSE CASE _payload[1] = COMPRESSION_ALGORITHM.PLAIN ->
              Returned(Subarray(_payload, 1, Len(_payload)))
         [] _payload[1] = COMPRESSION_ALGORITHM.DEFLATE ->
              inflate(Subarray(_payload, 1, Len(_payload)))
         [] _payload[1] = COMPRESSION_ALGORITHM.GZIP ->
              gunzip(Subarray(_payload, 1, Len(_payload)))
         [] OTHER -> Thrown(INVALID_COMPRESSION_ALGORITHM)

\* isCompressedBuffer(input)
IsCompressedBufferOn(input) ==
  /\ Len(input) > 1
  /\ input[1] \in {COMPRESSION_ALGORITHM.DEFLATE, COMPRESSION_ALGORITHM.GZIP,
                   COMPRESSION_ALGORITHM.PLAIN}

\* The bytes of the payloads: the three tags and one byte that is none.
PayloadBytes == {10, 15, 16, 97}

\* What compress, decompress and isCompressedBuffer leave alone.
zipFrame == <<queueVars, streamVars, ctorVars, sendVars, loopVars, pipeVars, snapVars, envVars, cryptoVars,
              codecVars, nextByte, destroyed>>

\* compress(algorithm, payload) of the payload at hand
Compress ==
  /\ \E a \in AlgorithmNumbers \cup {FromName(name) : name \in AlgorithmNames} :
       LET r == CompressOn(a, payload) IN
       /\ op' = "compress"
       /\ argN' = a
       /\ argBuf' = payload
       /\ err' = r.err
       /\ ret' = r.value
  /\ UNCHANGED <<compressed, zipFrame>>

\* The buffers at hand: the payload, and what the last call returned.
BuffersAtHand == {payload, ret}

\* decompress(input)
Decompress ==
  /\ \E input \in BuffersAtHand :
       LET r == DecompressOn(input) IN
       /\ op' = "decompress"
       /\ argN' = 0
       /\ argBuf' = input
       /\ err' = r.err
       /\ ret' = r.value
  /\ UNCHANGED <<compressed, zipFrame>>

\* isCompressedBuffer(input)
IsCompressedBuffer ==
  /\ \E input \in BuffersAtHand :
       /\ op' = "isCompressedBuffer"
       /\ argN' = 0
       /\ argBuf' = input
       /\ err' = NONE
       /\ compressed' = IsCompressedBufferOn(input)
  /\ UNCHANGED <<ret, zipFrame>>

InitCompression ==
  /\ \/ value = <<>> /\ payload \in SeqsUpTo(PayloadBytes, MaxCompressLen)
     \/ value \in {<<v>> : v \in Values} /\ payload = <<>>
  /\ subs = <<>>
  /\ compressed = FALSE
  /\ loopOffset = 0
  /\ ctor = "done"
  /\ promise = "idle"
  /\ chunksCount = 0
  /\ res = [head |-> FALSE, written |-> <<>>, ended |-> FALSE]
  /\ w = [writing |-> FALSE, buffered |-> <<>>, ending |-> FALSE]
  /\ piped = 0
  /\ kind = "compression"
  /\ parsed = <<>>
  /\ sk = <<>>
  /\ aes = <<>>
  /\ out = <<>>
  /\ op = "none"
  /\ argN = 0
  /\ argBuf = <<>>
  /\ err = NONE
  /\ ret = <<>>
  /\ chunks = <<>>
  /\ length = 0
  /\ finish = FALSE
  /\ disposed = FALSE
  /\ nextByte = 0
  /\ maxLength = 0
  /\ streamChunks = <<>>
  /\ chunksNull = TRUE
  /\ currentChunkIndex = 0
  /\ destroyed = FALSE
  /\ pushed = <<>>
  /\ pushRets = <<>>
  /\ eos = 0
  /\ snap = <<>>
  /\ snapLive = FALSE
  /\ originalPayload = 0
  /\ ready = FALSE
  /\ signature = 0
  /\ transporter = 0
  /\ algorithmIdentifier = 0
  /\ pc = <<>>
  /\ rejection = <<>>
  /\ got = 0
  /\ algorithm = ""
  /\ password = 0
  /\ hmacKey = "absent"
  /\ hk = <<>>

NextCompression == Serialize \/ Compress \/ Decompress \/ IsCompressedBuffer

\* serialize, compress, decompress and isCompressedBuffer applied to a
\* value or a payload and to what they return.
SpecCompression == InitCompression /\ [][NextCompression]_vars

---------------------------------------------------------------------------
\* Properties of the AES cipher.

\* The key yields no authentication tag of 16 bytes or more.
TagUnusable(k) == AuthTag(k) = <<>> \/ ByteLength(AuthTag(k)) < 16

\* C23 as stated: with a gcm variant, constructing the cipher fails with
\* ERR_INVALID_AUTH_TAG whenever the key yields no tag view, encrypt() and
\* decrypt() fail with it whenever the tag view is missing or shorter than
\* 16 bytes, none of them returns output then; with a cbc variant nothing
\* fails with ERR_INVALID_AUTH_TAG.
C23_TagRequiredForGcm ==
  [][/\ (op' = "new AES" /\ IncludesGcm(argBuf'[1]) /\ AuthTag(sk) = <<>>) =>
          (err' = INVALID_AUTH_TAG /\ aes' = <<>>)
     /\ (op' \in {"encrypt", "decrypt"} /\ IncludesGcm(argBuf'[1])
           /\ TagUnusable(sk)) =>
          (err' = INVALID_AUTH_TAG /\ out' = <<>>)
     /\ (op' \in {"new AES", "encrypt", "decrypt"} /\ ~IncludesGcm(argBuf'[1])) =>
          err' # INVALID_AUTH_TAG]_vars

\* C23: with a gcm variant and a key that yields no tag view, constructing
\* the cipher fails, with ERR_INVALID_AUTH_TAG once the usages and the
\* algorithm test have passed; with a gcm variant and a tag view missing
\* or shorter than 16 bytes, encrypt() and decrypt() return no output and
\* fail, with ERR_INVALID_AUTH_TAG once the cipher is writable, the IV has
\* 16 bytes or more and the primitive has taken key and IV; with a cbc
\* variant nothing fails with ERR_INVALID_AUTH_TAG and a key without tag
\* view encrypts.
C23_TagRequiredAfterEarlierTests ==
  [][/\ (op' = "new AES" /\ IncludesGcm(argBuf'[1]) /\ AuthTag(sk) = <<>>) =>
          /\ err' # NONE
          /\ aes' = <<>>
          /\ (sk.options.usages /\ AlgorithmOf(sk) = argBuf'[1]) =>
               err' = INVALID_AUTH_TAG
     /\ (op' \in {"encrypt", "decrypt"} /\ IncludesGcm(argBuf'[1])
           /\ TagUnusable(sk)) =>
          /\ err' # NONE
          /\ out' = <<>>
          /\ (/\ ~aes.finish
              /\ Iv(sk) # <<>>
              /\ ByteLength(Iv(sk)) >= 16
              /\ sk.keyLength = (IF Includes128(argBuf'[1]) THEN 16 ELSE 32)) =>
               err' = INVALID_AUTH_TAG
     /\ (op' \in {"new AES", "encrypt", "decrypt"} /\ ~IncludesGcm(argBuf'[1])) =>
          err' # INVALID_AUTH_TAG
     /\ (op' = "encrypt" /\ ~IncludesGcm(argBuf'[1]) /\ AuthTag(sk) = <<>>
           /\ ~aes.finish /\ Iv(sk) # <<>> /\ ByteLength(Iv(sk)) = 16
           /\ sk.keyLength = (IF Includes128(argBuf'[1]) THEN 16 ELSE 32)) =>
          (err' = NONE /\ out' # <<>>)]_vars

\* encrypt() of a gcm cipher has been refused for a tag view of 8 bytes.
C23_Witness ==
  /\ op = "encrypt"
  /\ err = INVALID_AUTH_TAG
  /\ out = <<>>
  /\ IncludesGcm(aes.variant)
  /\ AuthTag(sk) # <<>>
  /\ ByteLength(AuthTag(sk)) = 8

\* C24: constructing the cipher from a key that supports encryption and
\* decryption fails with ERR_INVALID_ALGORITHM exactly when the key was
\* given an algorithm and that algorithm is not the requested variant; a
\* key given no algorithm is accepted for every variant.
C24_AlgorithmMismatchOnly ==
  [][(op' = "new AES" /\ sk.options.usages) =>
       (err' = INVALID_ALGORITHM <=>
          (sk.given.algorithm # <<>> /\ sk.given.algorithm[1] # argBuf'[1]))]_vars

---------------------------------------------------------------------------
\* Properties of the failures of begin().

\* C21: a step of begin() that fails leaves #ready as it was; the envelope
\* is Ready only once a begin() has resolved, and until then every read of
\* algorithm, signature and transporter fails with
\* ERR_UNSUPPORTED_OPERATION and returns nothing, whatever a failed begin()
\* has stored.
C21_FailedBeginStaysUnstarted ==
  /\ [][\A i \in Invocations :
          (pc[i] # "rejected" /\ pc'[i] = "rejected") =>
            (rejection'[i] # NONE /\ ready' = ready)]_vars
  /\ [](ready => \E i \in Invocations : pc[i] = "resolved")
  /\ [][(op' \in Accessors /\ \A i \in Invocations : pc[i] # "resolved") =>
          (err' = UNSUPPORTED /\ got' = 0)]_vars

\* begin() was rejected with ERR_INVALID_IV_LENGTH after the signature had
\* been stored, and the read of the signature that followed has failed.
C21_Witness ==
  /\ op = "signature"
  /\ err = UNSUPPORTED
  /\ got = 0
  /\ signature # 0
  /\ ~ready
  /\ \E i \in Invocations : pc[i] = "rejected" /\ rejection[i] = INVALID_IV

\* The keyLength begin() asks for.
KeyLengthFor == IF Includes128(algorithm) THEN 16 ELSE 32

\* The step of begin() that builds and runs the cipher, hashObject having
\* resolved.
CipherRuns ==
  op' = "begin:hash" /\ pc[argN'] = "hash" /\ err' # HASH_FAILED

\* C22 as stated: when the secret has keyLength <= L < keyLength + 16
\* bytes, begin() rejects with ERR_INVALID_IV_LENGTH and no ciphertext is
\* produced; when L >= keyLength + 16 it does not reject with that code.
C22_ShortSecretIsInvalidIV ==
  [][CipherRuns =>
       /\ (KeyLengthFor <= password /\ password < KeyLengthFor + 16) =>
            /\ pc'[argN'] = "rejected"
            /\ rejection'[argN'] = INVALID_IV
            /\ out' = <<>>
            /\ transporter' = 0
       /\ password >= KeyLengthFor + 16 => err' # INVALID_IV]_vars

\* C22: when the secret has keyLength <= L < keyLength + 16 bytes, begin()
\* rejects, with ERR_INVALID_IV_LENGTH for the cbc variants and with
\* ERR_INVALID_AUTH_TAG for the gcm variants, and no ciphertext is
\* produced, in that step or ever; when L >= keyLength + 16 it does not
\* reject with ERR_INVALID_IV_LENGTH.
C22_ShortSecretRejected ==
  /\ [][CipherRuns =>
          /\ (KeyLengthFor <= password /\ password < KeyLengthFor + 16) =>
               /\ pc'[argN'] = "rejected"
               /\ rejection'[argN'] =
                    (IF IncludesGcm(algorithm) THEN INVALID_AUTH_TAG ELSE INVALID_IV)
               /\ out' = <<>>
               /\ transporter' = 0
          /\ password >= KeyLengthFor + 16 => err' # INVALID_IV]_vars
  /\ [](password < KeyLengthFor + 16 => (out = <<>> /\ transporter = 0))

\* begin() with a cbc variant and a secret one byte short of key and IV
\* has been rejected with ERR_INVALID_IV_LENGTH.
C22_Witness ==
  /\ op = "begin:hash"
  /\ err = INVALID_IV
  /\ ~IncludesGcm(algorithm)
  /\ password = KeyLengthFor + 15
  /\ pc[argN] = "rejected"
  /\ out = <<>>

\* last(n) of key k is the view of the trailing n bytes for n up to the
\* secret's length, and throws ERR_INVALID_ARGUMENT beyond.
LastIsTrailing(k) ==
  \A n \in 0..(k.key + 1) :
    Last(k, n) = IF n <= k.key THEN Returned(<<k.key - n, k.key>>)
                 ELSE Thrown(INVALID_ARGUMENT)

\* The signing key is the trailing 14 bytes of the secret.
IsLast14 == hk = <<"last", password - 14, password>>

---------------------------------------------------------------------------
\* Properties of serialize and parse.

\* The kinds of values C29 speaks of.
RoundTripKinds == {"string", "integer", "float", "boolean", "array", "object"}

\* C29: for every value of the kinds string, integer, float, boolean,
\* array and object, serialize returns the value's type tag, a zero byte
\* and the UTF-8 bytes of its JSON text, at least 3 bytes in all; parse
\* of that buffer passes the length, tag and reserved-byte tests and
\* returns the tag and the value.
C29_RoundTrip ==
  /\ [][(op' = "serialize" /\ value[1].k \in RoundTripKinds) =>
          /\ err' = NONE
          /\ Len(ret') >= 3
          /\ ret'[1] = TypeOf(value[1])
          /\ ret'[1] \in primitiveDataTypeValues
          /\ ret'[2] = 0
          /\ SubSeq(ret', 3, Len(ret')) = Utf8(Stringify(value[1]))]_vars
  /\ [][(op' = "parse" /\ value # <<>> /\ value[1].k \in RoundTripKinds) =>
          /\ argBuf' = ret
          /\ err' = NONE
          /\ parsed' = <<TypeOf(value[1]), value[1]>>]_vars

\* An object with a key that holds a quote has come back from parse.
C29_Witness ==
  /\ op = "parse"
  /\ err = NONE
  /\ value # <<>>
  /\ value[1].k = "object"
  /\ \E i \in 1..Len(value[1].members) : value[1].members[i][1] = <<"a", "\"">>
  /\ parsed = <<PrimitiveDataType.Object, value[1]>>

\* C30: parse fails with ERR_OUT_OF_RANGE on every buffer shorter than 3
\* bytes; on a longer one whose first byte is none of the eleven tags
\* 0x0F..0x19 with ERR_INVALID_ARGUMENT; on one with such a tag and a
\* second byte other than 0 with ERR_INVALID_ARGUMENT; it returns nothing
\* in these cases, and only a buffer passing the three tests has its
\* remainder parsed.
C30_RejectsInOrder ==
  [][op' = "parse" =>
       IF Len(argBuf') < 3 THEN err' = OUT_OF_RANGE /\ parsed' = <<>>
       ELSE IF argBuf'[1] \notin 15..25 THEN err' = INVALID_ARGUMENT /\ parsed' = <<>>
       ELSE IF argBuf'[2] # 0 THEN err' = INVALID_ARGUMENT /\ parsed' = <<>>
       ELSE /\ err' \in {NONE, PARSE_ERROR}
            /\ err' = NONE <=>
                 jsonSafeParser(FromUtf8(SubSeq(argBuf', 3, Len(argBuf')))).err = NONE
            /\ err' = NONE <=> parsed' # <<>>]_vars

\* parse has refused a buffer of two bytes whose first byte is no tag for
\* its length.
C30_Witness ==
  /\ op = "parse"
  /\ Len(argBuf) = 2
  /\ argBuf[1] \notin 15..25
  /\ argBuf[2] # 0
  /\ err = OUT_OF_RANGE
  /\ parsed = <<>>

---------------------------------------------------------------------------
\* Properties of the order of begin()'s steps.

\* C32: the signature is stored while the plaintext is held, the
\* transporter is created once the signature is stored, the algorithm
\* identifier is stored once the transporter exists, the plaintext is
\* released in the step that sets #ready and not before the algorithm
\* identifier is stored, and no field changes once #ready is set by the
\* same begin().
C32_StepsInOrder ==
  [][/\ (signature = 0 /\ signature' # 0) => originalPayload # 0
     /\ (transporter = 0 /\ transporter' # 0) => signature # 0
     /\ (algorithmIdentifier = 0 /\ algorithmIdentifier' # 0) => transporter # 0
     /\ (originalPayload # 0 /\ originalPayload' = 0) =>
          (algorithmIdentifier' # 0 /\ ready')
     /\ (~ready /\ ready') => originalPayload' = 0]_vars

\* C36: whenever #ready is set, the signature, the transporter and the
\* algorithm identifier are set, and every read of algorithm, signature
\* or transporter on a Ready envelope returns its field.
C36_ReadyHasAllFields ==
  /\ [](ready => (signature # 0 /\ transporter # 0 /\ algorithmIdentifier # 0))
  /\ [][(op' \in Accessors /\ ready) => (err' = NONE /\ got' # 0)]_vars

\* The algorithm has been read from a Ready envelope.
C36_Witness ==
  /\ op = "algorithm"
  /\ err = NONE
  /\ ready
  /\ got = algorithmIdentifier
  /\ got # 0

---------------------------------------------------------------------------
\* Properties of the numeric code of an Exception.

\* C35: two Exceptions constructed with different code names carry
\* different code values: when two successive calls on a queue fail with
\* Exceptions of different names, the codes of the two differ.
C35_CodesDistinct ==
  [][(err \in ErrorNames /\ err' \in ErrorNames /\ err # err') =>
       ExceptionCode(err) # ExceptionCode(err')]_vars

---------------------------------------------------------------------------
\* Properties of pipe and dispose.

\* The queue's content: chunk list and total length.
content == <<chunks, length>>

\* pipe fails on a disposed and on a non-finalized queue, without
\* subscribing, and subscribes otherwise; no step of pipe and no event of
\* a source changes the content.
PipeKeepsContent ==
  /\ (op' = "pipe" /\ (disposed \/ ~finish)) =>
       (err' = UNDERFLOW /\ UNCHANGED subs)
  /\ (op' = "pipe" /\ ~disposed /\ finish) =>
       (err' = NONE /\ Len(subs') = Len(subs) + 1)
  /\ op' \in {"pipe", "data", "error", "cancel"} => UNCHANGED content
  /\ subs' # subs => finish

\* C38 as stated: pipe fails on a disposed and on a non-finalized queue
\* without subscribing; no source event changes chunk list and total
\* length; and every data chunk a source emits surfaces as an error event
\* on the queue.
C38_EveryChunkIsAnError ==
  [][/\ PipeKeepsContent
     /\ op' = "data" => err' # NONE]_vars

\* C38: pipe fails on a disposed and on a non-finalized queue without
\* subscribing; no source event changes chunk list and total length; a
\* data chunk emitted while the subscription's token is not cancelled
\* surfaces as an error event on the queue (the overflow of append, or
\* the invalid chunk of the buffer conversion), and one emitted after the
\* token was cancelled is dropped without an event.
C38_PipeNeverChangesContent ==
  [][/\ PipeKeepsContent
     /\ (op' = "data" /\ subs[argN'] # "cancelled") =>
          err' \in {OVERFLOW, INVALID_CHUNK}
     /\ (op' = "data" /\ argBuf' # <<>> /\ subs[argN'] # "cancelled") =>
          err' = OVERFLOW
     /\ (op' = "data" /\ subs[argN'] = "cancelled") => err' = NONE]_vars

\* A source has emitted a non-empty chunk into a finalized queue holding
\* bytes, and append rejected it.
C38_Witness ==
  /\ op = "data"
  /\ err = OVERFLOW
  /\ argBuf # <<>>
  /\ length > 0
  /\ ~disposed

\* C39: the first dispose() finalizes the queue, empties the chunk list
\* and sets the total length to 0; a later dispose() changes nothing; on a
\* disposed queue acceptChunk, end, return, chunks and pipe fail, and the
\* queue stays disposed, finalized and empty with total length 0.
C39_DisposeIsTerminal ==
  /\ [](disposed => (finish /\ chunks = <<>> /\ length = 0))
  /\ [][/\ (op' = "dispose") =>
            (err' = NONE /\ disposed' /\ finish' /\ chunks' = <<>> /\ length' = 0)
        /\ (op' = "dispose" /\ disposed) => UNCHANGED <<queueVars, subs>>
        /\ disposed => disposed'
        /\ (disposed /\ op' \in {"acceptChunk", "end", "return", "chunks", "pipe"}) =>
            (err' # NONE /\ UNCHANGED <<queueVars, subs>>)]_vars

\* Each of the five calls has failed on a disposed queue that held bytes
\* before it was disposed: here, append.
C39_Witness ==
  /\ disposed
  /\ op = "acceptChunk"
  /\ err = OVERFLOW
  /\ nextByte > 0
  /\ length = 0

---------------------------------------------------------------------------
\* Properties of the compression wrapper.

\* The three algorithm tags.
CompressionTags == {10, 15, 16}

\* C31: the tags are plain = 0x0A, gzip = 0x0F, deflate = 0x10; compress
\* with one of the three algorithms returns a buffer whose first byte is
\* that algorithm's tag, the plain wrapper being the tag followed by the
\* payload; decompress of what compress returned gives the payload back;
\* and decompress rejects a buffer whose first byte is none of the tags.
C31_CompressionRoundTrip ==
  [][/\ COMPRESSION_ALGORITHM = [PLAIN |-> 10, GZIP |-> 15, DEFLATE |-> 16]
     /\ (op' = "compress" /\ argN' \in CompressionTags) =>
          (err' = NONE /\ ret' # <<>> /\ ret'[1] = argN')
     /\ (op' = "compress" /\ argN' = 10) => ret' = <<10>> \o payload
     /\ (op' = "compress" /\ argN' \notin CompressionTags) =>
          err' = INVALID_COMPRESSION_ALGORITHM
     /\ (op = "compress" /\ err = NONE /\ op' = "decompress" /\ argBuf' = ret) =>
          (err' = NONE /\ ret' = payload)
     /\ (op' = "decompress" /\ argBuf' # <<>> /\ argBuf'[1] \notin CompressionTags) =>
          err' = INVALID_COMPRESSION_ALGORITHM]_vars

\* A gzip wrapper of a non-empty payload has been decompressed.
C31_Witness ==
  /\ op = "decompress"
  /\ err = NONE
  /\ Len(argBuf) > 1
  /\ argBuf[1] = 15
  /\ ret = payload
  /\ payload # <<>>

\* C37: no type tag of serialize is a compression tag; isCompressedBuffer
\* returns false for every buffer serialize returned and true for every
\* buffer compress returned for a non-empty payload.
C37_TagsApart ==
  [][/\ primitiveDataTypeValues \cap CompressionTags = {}
     /\ (op = "serialize" /\ err = NONE /\ op' = "isCompressedBuffer" /\ argBuf' = ret) =>
          ~compressed'
     /\ (op = "compress" /\ err = NONE /\ payload # <<>> /\
         op' = "isCompressedBuffer" /\ argBuf' = ret) =>
          compressed']_vars

---------------------------------------------------------------------------
\* Properties of the Transporter constructor.

\* C33: the width the constructor splits by is positive, every turn of
\* its loop moves the offset forward, and the constructor comes to its
\* end for every payload and every _maxBlockSize.
C33_WidthPositive ==
  /\ [](ctor # "new" => maxLength > 0)
  /\ [][op' = "constructor:loop" => loopOffset' > loopOffset]_vars
  /\ <>(ctor = "done")

---------------------------------------------------------------------------
\* Properties of ExpressAdapter.send.

\* The chunks a Transporter delivers: the non-empty ones it was built of.
Delivered == SelectSeq(chunks, LAMBDA c : c # <<>>)

\* C34: send() on a transporter delivering at least one chunk eventually
\* resolves, and it resolves with the number of chunks, after all of them
\* were written to the response in order and the response was ended.
C34_SendResolves ==
  /\ (promise = "pending" /\ Len(Delivered) >= 1) ~> (promise = "resolved")
  /\ [](promise = "resolved" =>
          (chunksCount = Len(Delivered) /\ res.written = Delivered /\ res.ended))

============================================================================
